---- MODULE Spec2Model ----
(***************************************************************************)
(* Model of @toopro/db: the entity cache with its secondary indexes        *)
(* (CacheBaseService), the cache-backed query protocol of the entity       *)
(* service (DB_EntityService_Base) and the server broker's login state     *)
(* machine (DB_BrokerService).                                             *)
(*                                                                         *)
(* Values: an entity is a record [t |-> "item", id, status]; the JS        *)
(* values null and undefined are the records NullV and UndefV.  A JS Map   *)
(* is a sequence of <<key, value>> pairs in insertion order.               *)
(***************************************************************************)
EXTENDS Integers, Sequences, FiniteSets, TLC

\* ------------------------------------------------------------------ bounds
MaxId == 2
MaxVal == 1
MaxItemsBound == 1
MaxRes == 1
MaxCallers == 2
MaxCred == 1
MaxTries == 1

\* ------------------------------------------------------------ value domains
NoId == 0
NoVal == 0
DefaultCacheMaxItems == 200

\* enum IsLoginStatus
IsLoginStatus_yes == 10
IsLoginStatus_ndef == 0
IsLoginStatus_not == -10
IsLoginStatus_waiting == -5
IsLoginStatus_error == -100

\* no login, password or token on the server info
NoCred == 0
Creds == 1..MaxCred
Callers == 1..MaxCallers

Ids == 1..MaxId
Vals == 1..MaxVal
Fields == {"status"}
NoField == "-"

NullV == [t |-> "null"]
UndefV == [t |-> "undefined"]
Item(i, s) == [t |-> "item", id |-> i, status |-> s]
Items == {Item(i, s) : i \in Ids, s \in Vals \cup {NoVal}}
IsItem(v) == v.t = "item"
\* JS truthiness of a cached value: objects are truthy, null/undefined are not
Truthy(v) == v.t = "item"

VARIABLES
  cache,                 \* CacheBaseService.cache
  cacheMaxItems,         \* CacheBaseService.cacheMaxItems
  cachedItems,           \* CacheBaseService.cachedItems : Map<id, T|null>
  cacheIndexKeys,        \* keys of CacheBaseService.cacheIndex
  cacheIndex,            \* CacheBaseService.cacheIndex : field -> value -> id
  cacheLastLoadedItem,   \* CacheBaseService.cacheLastLoadedItem
  cacheLastLoadedItemID, \* CacheBaseService.cacheLastLoadedItemID
  enableOk,              \* history: the size bound held right after the last cacheEnable
  setLog,                \* history: ids of the cacheSet calls made since the cache was
                         \*   enabled empty, while nothing else was called
  lastOp,                \* history: the last call, its arguments and what it returned
  srvInfo,               \* DB_ServerInfo of the service's server, as kept by the broker
  calls,                 \* the asynchronous calls on the server that are under way
  deep,                  \* one run of loadDeepEntities over a result batch
  qb,                    \* a DB_Query builder: its query and what for() returned
  svc,                   \* an entity service's options, error slot and adapter calls
  broker                 \* DB_BrokerService: servers, subscribers, timers set by setTimeout

cacheVars == <<cache, cacheMaxItems, cachedItems, cacheIndexKeys, cacheIndex,
               cacheLastLoadedItem, cacheLastLoadedItemID>>
histVars == <<enableOk, setLog, lastOp>>
authVars == <<srvInfo, calls>>
extVars == <<deep, qb, svc, broker>>
vars == <<cacheVars, histVars, authVars, extVars>>

\* ------------------------------------------------------------- JS Map ops
MapHas(m, id) == \E k \in 1..Len(m) : m[k][1] = id
MapGet(m, id) ==
  IF MapHas(m, id) THEN m[CHOOSE k \in 1..Len(m) : m[k][1] = id][2] ELSE UndefV
\* Map.set keeps the position of an existing key and appends a new one
MapSet(m, id, v) ==
  IF MapHas(m, id)
  THEN [k \in 1..Len(m) |-> IF m[k][1] = id THEN <<id, v>> ELSE m[k]]
  ELSE Append(m, <<id, v>>)
MapDelete(m, id) == SelectSeq(m, LAMBDA e : e[1] # id)
MapKeys(m) == [k \in 1..Len(m) |-> m[k][1]]
MapKeySet(m) == {m[k][1] : k \in 1..Len(m)}

\* ------------------------------------------------------ the cache object
EmptyBucket == [v \in Vals |-> NoId]

CacheRec ==
  [cache |-> cache, cacheMaxItems |-> cacheMaxItems, cachedItems |-> cachedItems,
   cacheIndexKeys |-> cacheIndexKeys, cacheIndex |-> cacheIndex,
   cacheLastLoadedItem |-> cacheLastLoadedItem,
   cacheLastLoadedItemID |-> cacheLastLoadedItemID]

CacheInit ==
  [cache |-> FALSE, cacheMaxItems |-> DefaultCacheMaxItems, cachedItems |-> <<>>,
   cacheIndexKeys |-> {}, cacheIndex |-> [f \in Fields |-> EmptyBucket],
   cacheLastLoadedItem |-> NullV, cacheLastLoadedItemID |-> NoId]

CacheAssign(c) ==
  /\ cache' = c.cache
  /\ cacheMaxItems' = c.cacheMaxItems
  /\ cachedItems' = c.cachedItems
  /\ cacheIndexKeys' = c.cacheIndexKeys
  /\ cacheIndex' = c.cacheIndex
  /\ cacheLastLoadedItem' = c.cacheLastLoadedItem
  /\ cacheLastLoadedItemID' = c.cacheLastLoadedItemID

\* cacheEnable(indexBy, idPropName = 'id', maxItems): the id property is 'id'
cacheEnable(c, indexBy, maxItems) ==
  [c EXCEPT !.cache = TRUE,
            !.cacheMaxItems = maxItems,
            !.cacheIndexKeys = @ \cup indexBy,
            !.cacheIndex = [f \in Fields |-> IF f \in indexBy THEN EmptyBucket ELSE @[f]]]

cacheSaveIndexByField(c, fieldName, value, id) ==
  IF value = NoVal THEN c
  ELSE [c EXCEPT !.cacheIndexKeys = @ \cup {fieldName},
                 !.cacheIndex[fieldName][value] = id]

cacheDelete_KeepIndex(c, id) ==
  IF ~c.cache THEN c
  ELSE LET last == (id = c.cacheLastLoadedItemID) IN
       [c EXCEPT !.cachedItems = MapDelete(@, id),
                 !.cacheLastLoadedItem = IF last THEN NullV ELSE @,
                 !.cacheLastLoadedItemID = IF last THEN NoId ELSE @]

cacheDelete_KeepLast(c, id) ==
  IF ~c.cache THEN c
  ELSE [c EXCEPT !.cachedItems = MapDelete(@, id),
                 !.cacheIndex = [f \in Fields |->
                    [v \in Vals |-> IF @[f][v] = id THEN NoId ELSE @[f][v]]]]

cacheDelete(c, id) ==
  IF ~c.cache THEN c
  ELSE LET last == (id = c.cacheLastLoadedItemID) IN
       [c EXCEPT !.cachedItems = MapDelete(@, id),
                 !.cacheIndex = [f \in Fields |->
                    [v \in Vals |-> IF @[f][v] = id THEN NoId ELSE @[f][v]]],
                 !.cacheLastLoadedItem = IF last THEN NullV ELSE @,
                 !.cacheLastLoadedItemID = IF last THEN NoId ELSE @]

\* the for-loop of cacheMaintenance over the keys snapshot
RECURSIVE MaintenanceLoop(_, _, _)
MaintenanceLoop(c, keys, k) ==
  IF k > Len(keys) THEN c
  ELSE LET d == cacheDelete(c, keys[k]) IN
       IF Len(d.cachedItems) <= d.cacheMaxItems THEN d
       ELSE MaintenanceLoop(d, keys, k + 1)

cacheMaintenance(c) ==
  IF Len(c.cachedItems) < c.cacheMaxItems THEN c
  ELSE MaintenanceLoop(c, MapKeys(c.cachedItems), 1)

\* the loop of cacheSet over the existing indexes
RECURSIVE IndexItem(_, _, _)
IndexItem(c, item, fs) ==
  IF fs = {} THEN c
  ELSE LET f == CHOOSE x \in fs : TRUE IN
       IndexItem(cacheSaveIndexByField(c, f, item[f], item.id), item, fs \ {f})

cacheSet(c, item, addToIndexBy) ==
  IF ~c.cache THEN c
  ELSE LET c1 == IF Len(c.cachedItems) > c.cacheMaxItems THEN cacheMaintenance(c) ELSE c
           c2 == [c1 EXCEPT !.cacheLastLoadedItemID = item.id,
                            !.cacheLastLoadedItem = item]
           c3 == IF MapHas(c2.cachedItems, item.id) THEN cacheDelete(c2, item.id) ELSE c2
           c4 == [c3 EXCEPT !.cachedItems = MapSet(@, item.id, item)]
           c5 == IndexItem(c4, item, c4.cacheIndexKeys)
           addTo == IF addToIndexBy \in c4.cacheIndexKeys THEN NoField ELSE addToIndexBy
       IN  IF addTo # NoField /\ item[addTo] # NoVal
           THEN cacheSaveIndexByField(c5, addTo, item[addTo], item.id)
           ELSE c5

cacheSetNullItem(c, id, fieldName, value) ==
  IF ~c.cache THEN c
  ELSE LET c1 == [c EXCEPT !.cachedItems = MapSet(@, id, NullV)] IN
       IF fieldName # NoField /\ value # NoVal /\ fieldName \in c1.cacheIndexKeys
       THEN cacheSaveIndexByField(c1, fieldName, value, id)
       ELSE c1

cacheGet(c, id) ==
  IF ~c.cache THEN UndefV
  ELSE IF id = c.cacheLastLoadedItemID THEN c.cacheLastLoadedItem
  ELSE MapGet(c.cachedItems, id)

cacheGetByField(c, fieldName, value) ==
  IF ~c.cache THEN UndefV
  ELSE IF fieldName \in c.cacheIndexKeys /\ c.cacheIndex[fieldName][value] # NoId
       THEN cacheGet(c, c.cacheIndex[fieldName][value])
       ELSE UndefV

\* ------------------------------------------------------------ queries
\* I_DB_Query, reduced to its filter on the id field (none, _eq or _in), an
\* optional _eq filter on the status field, and skipCache
Query(hasId, eq, in, st, skip) ==
  [hasId |-> hasId, eq |-> eq, in |-> in, st |-> st, skipCache |-> skip]

\* the id lists of an _in filter: no id twice
IdLists ==
  {l \in UNION {[1..n -> Ids] : n \in 0..MaxId} :
     \A j, k \in 1..Len(l) : j # k => l[j] # l[k]}

EqQueries == {Query("eq", i, <<>>, NoVal, sk) : i \in Ids, sk \in BOOLEAN}

\* the query getById(id) builds: dbqb().equal(idFieldName, id), skipCache unset
GetByIdQueries == {Query("eq", i, <<>>, NoVal, FALSE) : i \in Ids}

Queries ==
  EqQueries
  \cup {Query("in", NoId, l, NoVal, sk) : l \in IdLists, sk \in BOOLEAN}
  \cup {Query("none", NoId, <<>>, v, sk) : v \in Vals \cup {NoVal}, sk \in BOOLEAN}

Array(items) == [t |-> "array", items |-> items]

\* the loop of cacheQuery over idFilter._in
RECURSIVE CacheQueryIn(_, _, _, _)
CacheQueryIn(c, ids, k, retArr) ==
  IF k > Len(ids) THEN Array(retArr)
  ELSE LET item == cacheGet(c, ids[k]) IN
       IF Truthy(item) THEN CacheQueryIn(c, ids, k + 1, Append(retArr, item))
       ELSE UndefV

cacheQuery_SkipEq(c, q) ==
  IF q.hasId = "in"
  THEN CacheQueryIn(c, q.in, 1, <<>>)
  ELSE IF q.hasId = "none" /\ q.st # NoVal /\ "status" \in c.cacheIndexKeys
  THEN LET item == cacheGetByField(c, "status", q.st) IN
       IF Truthy(item) THEN Array(<<item>>) ELSE UndefV
  ELSE UndefV

cacheQuery(c, q) ==
  IF q.hasId = "eq"
  THEN LET cached == cacheGet(c, q.eq) IN
       IF Truthy(cached) THEN Array(<<cached>>) ELSE UndefV
  ELSE IF q.hasId = "in"
  THEN CacheQueryIn(c, q.in, 1, <<>>)
  ELSE IF q.st # NoVal /\ "status" \in c.cacheIndexKeys
  THEN LET item == cacheGetByField(c, "status", q.st) IN
       IF Truthy(item) THEN Array(<<item>>) ELSE UndefV
  ELSE UndefV

RECURSIVE CacheSetAll(_, _, _)
CacheSetAll(c, result, k) ==
  IF k > Len(result) THEN c
  ELSE CacheSetAll(cacheSet(c, result[k], NoField), result, k + 1)

RECURSIVE CacheSetNullAll(_, _, _)
CacheSetNullAll(c, ids, k) ==
  IF k > Len(ids) THEN c
  ELSE CacheSetNullAll(cacheSetNullItem(c, ids[k], NoField, NoVal), ids, k + 1)

cacheSetQueryResult(c, q, result) ==
  LET c1 == CacheSetAll(c, result, 1)
      c2 == IF q.hasId = "eq" THEN cacheSetNullItem(c1, q.eq, NoField, NoVal) ELSE c1
  IN  IF q.hasId = "in" THEN CacheSetNullAll(c2, q.in, 1) ELSE c2

\* _query_post_process, its cache step (deep fields, caster and postLoadModifier
\* leave the cache alone)
QueryPostProcess(c, q, res) ==
  IF c.cache THEN cacheSetQueryResult(c, q, res) ELSE c

\* What a backend may answer: entities that satisfy the filter, in ascending
\* id order, no id twice
Matches(q, x) ==
  /\ q.hasId = "eq" => x.id = q.eq
  /\ q.hasId = "in" => \E k \in 1..Len(q.in) : q.in[k] = x.id
  /\ q.st # NoVal => x.status = q.st

ResultLen(q) == IF q.hasId = "in" THEN Len(q.in) ELSE MaxRes

BackendResults(q) ==
  {r \in UNION {[1..n -> {x \in Items : Matches(q, x)}] : n \in 0..ResultLen(q)} :
     \A j, k \in 1..Len(r) : j < k => r[j].id < r[k].id}

\* query(), its cache step: with caching on and skipCache unset the answer is
\* `cacheQuery(query) ?? []`, which is never undefined, and query() returns it;
\* UndefV here stands for "not answered from the cache, go on to the server"
QueryFromCache(c, q) ==
  IF c.cache /\ ~q.skipCache
  THEN LET res == cacheQuery(c, q) IN
       IF res = UndefV THEN Array(<<>>) ELSE res
  ELSE UndefV

\* --------------------------------------------------------------- history
Op(name, id) ==
  [op |-> name, id |-> id,
   afterSet |-> (lastOp.op = "cacheSet" /\ lastOp.id = id)]
\* adapter: whether the call went to the server
QueryOp(q, res, adapter) ==
  [op |-> "query", id |-> NoId, afterSet |-> FALSE,
   q |-> q, res |-> res, adapter |-> adapter]

Void == <<NoId>>
LogSet(id) ==
  IF setLog # Void /\ cache /\ Len(setLog) <= cacheMaxItems
     /\ \A k \in 1..Len(setLog) : setLog[k] # id
  THEN Append(setLog, id) ELSE Void

\* --------------------------------------------------------- cache actions
CacheEnable(indexBy, maxItems) ==
  /\ CacheAssign(cacheEnable(CacheRec, indexBy, maxItems))
  /\ enableOk' = (Len(cachedItems) <= maxItems)
  /\ setLog' = IF Len(cachedItems) = 0 THEN <<>> ELSE Void
  /\ lastOp' = Op("cacheEnable", NoId)
  /\ UNCHANGED <<authVars, extVars>>

CacheSet(item, addToIndexBy) ==
  /\ CacheAssign(cacheSet(CacheRec, item, addToIndexBy))
  /\ setLog' = LogSet(item.id)
  /\ lastOp' = Op("cacheSet", item.id)
  /\ UNCHANGED <<enableOk, authVars, extVars>>

CacheSetNullItem(id, fieldName, value) ==
  /\ CacheAssign(cacheSetNullItem(CacheRec, id, fieldName, value))
  /\ setLog' = Void
  /\ lastOp' = Op("cacheSetNullItem", id)
  /\ UNCHANGED <<enableOk, authVars, extVars>>

CacheDelete(id) ==
  /\ CacheAssign(cacheDelete(CacheRec, id))
  /\ setLog' = Void
  /\ lastOp' = Op("cacheDelete", id)
  /\ UNCHANGED <<enableOk, authVars, extVars>>

\* --------------------------------------------------------- query actions
QueryCached(q) ==
  /\ QueryFromCache(CacheRec, q) # UndefV
  /\ lastOp' = QueryOp(q, QueryFromCache(CacheRec, q).items, FALSE)
  /\ UNCHANGED <<cacheVars, enableOk, setLog, authVars, extVars>>

\* the server is logged in, so query() does not log in before its request; a
\* failed request leaves res = [], which is post-processed like any result
QueryBackend(q) ==
  /\ srvInfo.isLoggedIn > IsLoginStatus_ndef
  /\ QueryFromCache(CacheRec, q) = UndefV
  /\ \E res \in BackendResults(q) :
       /\ CacheAssign(QueryPostProcess(CacheRec, q, res))
       /\ lastOp' = QueryOp(q, res, TRUE)
  /\ setLog' = Void
  /\ UNCHANGED <<enableOk, authVars, extVars>>


\* ---------------------------------------------------------- getOneByField
\* DB_Query.skipCache(skip = true): an argument that is undefined takes the
\* default true, so the test `skip !== undefined` always passes.  skip is
\* "undefined", "true" or "false".
skipCache(q, skip) ==
  LET given == IF skip = "undefined" THEN "true" ELSE skip
  IN  IF given # "undefined" THEN [q EXCEPT !.skipCache = (given = "true")] ELSE q

\* getOneByField('status', value, recheckCache): the query
\* dbqb().skipCache(recheckCache).equal('status', value) handed to queryOne,
\* answered from the cache or by the server
GetOneByField(value, recheckCache) ==
  LET q == [skipCache(Query("none", NoId, <<>>, NoVal, FALSE), recheckCache)
              EXCEPT !.st = value]
  IN  QueryCached(q) \/ QueryBackend(q)

\* ------------------------------------------------------ login to the server
\* A call is at: idle (not made), request (loginToServer awaits the server's
\* answer), poll (loginToServer found the status waiting and sleeps), wait
\* (waitForLogin sleeps), logout (logout awaits the server), returned.
\* via names the entry point that made the call.
Idle == [pc |-> "idle", via |-> "-", tries |-> 0, ret |-> IsLoginStatus_ndef]
At(pc, via, tries) == [pc |-> pc, via |-> via, tries |-> tries, ret |-> IsLoginStatus_ndef]
Returned(via, status) == [pc |-> "returned", via |-> via, tries |-> 0, ret |-> status]

SrvInfo(status, cred, fn, client) ==
  [isLoggedIn |-> status, credentials |-> cred, loginFunction |-> fn, i |-> client]

\* the outcome of a call on the server: the server info and where the call is
Out(s, call) == [srv |-> s, call |-> call]

\* DB_EntityServiceBase_Directus.loginToServer up to its first await
loginToServer(s, via) ==
  IF s.isLoggedIn > IsLoginStatus_ndef THEN Out(s, Returned(via, s.isLoggedIn))
  ELSE IF s.isLoggedIn = IsLoginStatus_waiting THEN Out(s, At("poll", via, MaxTries - 1))
  ELSE IF s.credentials = NoCred
  THEN Out([s EXCEPT !.isLoggedIn = IsLoginStatus_error, !.i = TRUE],
           Returned(via, IsLoginStatus_error))
  ELSE Out([s EXCEPT !.isLoggedIn = IsLoginStatus_waiting, !.i = TRUE],
           At("request", via, 0))

\* the while loop of loginToServer and of waitForLogin, after one sleep
pollLogin(s, call) ==
  IF s.isLoggedIn = IsLoginStatus_waiting /\ call.tries > 0
  THEN [call EXCEPT !.tries = @ - 1]
  ELSE Returned(call.via, s.isLoggedIn)

haveCredentials(s) == s.credentials # NoCred

\* DB_BrokerService._loginServer (someService is never set)
LoginServerInternal(s, via) ==
  IF ~s.loginFunction
  THEN Out([s EXCEPT !.isLoggedIn = IsLoginStatus_error], Returned(via, IsLoginStatus_error))
  ELSE loginToServer(s, via)

\* the variant of checkLogin that always resets the status and logs in again
checkLogin_Always(s, recheck) ==
  loginToServer([s EXCEPT !.isLoggedIn = IsLoginStatus_ndef],
                IF recheck THEN "recheck" ELSE "checkLogin")

\* DB_EntityService_Base.checkLogin
checkLogin(s, recheck) ==
  IF ~recheck
  THEN IF s.isLoggedIn <= 0 THEN loginToServer(s, "checkLogin")
       ELSE Out(s, Returned("checkLogin", s.isLoggedIn))
  ELSE loginToServer([s EXCEPT !.isLoggedIn = IsLoginStatus_ndef], "recheck")

\* DB_BrokerService.upsertServer(name, changes, doLogin): cred is the credential
\* the changes carry, NoCred when they carry none
upsertServer(s, cred, doLogin) ==
  LET credChanged == cred # NoCred /\ cred # s.credentials
      s1 == IF credChanged THEN [s EXCEPT !.credentials = cred] ELSE s
  IN  IF doLogin /\ s1.isLoggedIn <= 0 /\ s1.loginFunction /\ credChanged
      THEN LoginServerInternal(s1, "upsertServer")
      ELSE Out(s1, Idle)

AuthAssign(c, out) ==
  /\ srvInfo' = out.srv
  /\ calls' = [calls EXCEPT ![c] = out.call]
  /\ UNCHANGED <<cacheVars, histVars, extVars>>

\* new DB_EntityServiceBase_Directus(entityName, dbBroker)
NewService(c) ==
  /\ calls[c].pc = "idle"
  /\ LET out == IF haveCredentials(srvInfo) /\ srvInfo.isLoggedIn < IsLoginStatus_ndef
                THEN loginToServer(srvInfo, "constructor")
                ELSE Out(srvInfo, Idle)
     IN  AuthAssign(c, Out([out.srv EXCEPT !.loginFunction = TRUE], out.call))

CheckLogin(c, recheck) ==
  /\ calls[c].pc = "idle"
  /\ AuthAssign(c, checkLogin(srvInfo, recheck))

UpsertServer(c, cred, doLogin) ==
  /\ calls[c].pc = "idle"
  /\ AuthAssign(c, upsertServer(srvInfo, cred, doLogin))

LoginServer(c) ==
  /\ calls[c].pc = "idle"
  /\ AuthAssign(c, LoginServerInternal(srvInfo, "loginServer"))

\* the server answers the login request of call c
LoginAnswer(c, ok) ==
  /\ calls[c].pc = "request"
  /\ LET status == IF ok THEN IsLoginStatus_yes ELSE IsLoginStatus_not
     IN  AuthAssign(c, Out([srvInfo EXCEPT !.isLoggedIn = status],
                           Returned(calls[c].via, status)))

LoginPoll(c) ==
  /\ calls[c].pc = "poll"
  /\ AuthAssign(c, Out(srvInfo, pollLogin(srvInfo, calls[c])))

\* the variant of waitForLogin that logs in when the server is not logged in
WaitForLogin_Relogin(c) ==
  /\ calls[c].pc = "idle"
  /\ AuthAssign(c,
       IF srvInfo.isLoggedIn = IsLoginStatus_waiting /\ MaxTries > 0
       THEN Out(srvInfo, At("wait", "waitForLogin", MaxTries - 1))
       ELSE IF srvInfo.isLoggedIn > 0
       THEN Out(srvInfo, Returned("waitForLogin", srvInfo.isLoggedIn))
       ELSE loginToServer(srvInfo, "waitForLogin"))

\* DB_BrokerService.waitForLogin up to its first sleep
WaitForLogin(c) ==
  /\ calls[c].pc = "idle"
  /\ AuthAssign(c, Out(srvInfo,
       IF srvInfo.isLoggedIn = IsLoginStatus_waiting /\ MaxTries > 0
       THEN At("wait", "waitForLogin", MaxTries - 1)
       ELSE Returned("waitForLogin", srvInfo.isLoggedIn)))

WaitPoll(c) ==
  /\ calls[c].pc = "wait"
  /\ AuthAssign(c, Out(srvInfo, pollLogin(srvInfo, calls[c])))

\* DB_EntityServiceBase_Directus.logout up to its await
Logout(c) ==
  /\ calls[c].pc = "idle"
  /\ AuthAssign(c,
       IF srvInfo.i /\ srvInfo.isLoggedIn > IsLoginStatus_ndef
       THEN Out([srvInfo EXCEPT !.isLoggedIn = IsLoginStatus_waiting], At("logout", "logout", 0))
       ELSE Out(srvInfo, Returned("logout", srvInfo.isLoggedIn)))

\* the server answers the logout request; on an error the status is set to
\* waiting again
LogoutAnswer(c, ok) ==
  /\ calls[c].pc = "logout"
  /\ LET status == IF ok THEN IsLoginStatus_not ELSE IsLoginStatus_waiting
     IN  AuthAssign(c, Out([srvInfo EXCEPT !.isLoggedIn = status], Returned("logout", status)))

\* the caller has taken the result of its call
Done(c) ==
  /\ calls[c].pc = "returned"
  /\ AuthAssign(c, Out(srvInfo, Idle))

\* ------------------------------------------------- deep fields (loadDeepEntities)
MaxBatch == 2

\* the service's deepFields option: the fields of the host entity that hold
\* foreign keys of entities kept by a sibling service
DeepFieldNames == <<"author", "tags">>
DeepFieldSet == {DeepFieldNames[n] : n \in 1..Len(DeepFieldNames)}

\* what a foreign key field can hold: an id (k = "id"), an object that
\* carries its id (k = "obj", a mock entity), an object with no id (k = "obj",
\* id = NoId); after resolution, an entity of the sibling service or undefined
Fk(k, i) == [k |-> k, id |-> i]
Foreign(i) == [k |-> "entity", id |-> i]
\* a field value: one key or entity (arr = FALSE) or an array of them
Val(arr, v) == [arr |-> arr, v |-> v]

\* all sequences without repetition over the set S
Perms(S) == {s \in [1..Cardinality(S) -> S] : \A a, b \in 1..Cardinality(S) : s[a] = s[b] => a = b}

\* result batches: author holds one foreign key, tags an array of ids
Batches ==
  LET AuthorVals == {Val(FALSE, Fk("id", i)) : i \in Ids}
                      \cup {Val(FALSE, Fk("obj", 1)), Val(FALSE, Fk("obj", NoId))}
      TagsVals == {Val(TRUE, [n \in 1..Len(s) |-> Fk("id", s[n])]) :
                     s \in UNION {Perms(S) : S \in SUBSET Ids}}
  IN  UNION {[1..n -> [author : AuthorVals, tags : TagsVals]] : n \in 1..MaxBatch}

\* DB_EntityService_Base.getByIds of the sibling service, whose backend
\* holds the entities of `store`: the entities found, in the order the
\* backend lists them; an empty list when the request failed (query catches
\* the error and returns [])
FetchFailed == [t |-> "array", items |-> <<>>, failed |-> TRUE]
GetByIdsAnswers(store, realIds) ==
  {FetchFailed} \cup
  {Array([n \in 1..Len(p) |-> Foreign(p[n])]) :
     p \in Perms({i \in store : \E n \in 1..Len(realIds) : realIds[n] = i})}

\* retErrorString: TRUE when it throws the error it has recorded
RetErrorThrows(throwErrors, forceThrow) == throwErrors \/ forceThrow

\* the ids.map of _loadDeepField: null when an object carries no id
RealIds(ids) ==
  IF \E n \in 1..Len(ids) : ids[n].k = "obj" /\ ids[n].id = NoId
  THEN NullV
  ELSE Array([n \in 1..Len(ids) |-> ids[n].id])

\* DB_EntityService_Base._loadDeepField; answer is what the sibling's getByIds
\* returns if it is called
loadDeepField(d, field, ids, answer) ==
  IF field \notin d.registered
  THEN [ret |-> NullV, thrown |-> RetErrorThrows(d.throwErrors, FALSE), called |-> FALSE]
  ELSE IF RealIds(ids) = NullV
  THEN [ret |-> NullV, thrown |-> FALSE, called |-> FALSE]
  ELSE [ret |-> answer, thrown |-> FALSE, called |-> TRUE]

\* the answers the sibling can give to the call _loadDeepField would make
DeepAnswers(d, field, ids) ==
  IF field \in d.registered /\ RealIds(ids) # NullV
  THEN GetByIdsAnswers(d.store, RealIds(ids).items)
  ELSE {NullV}

\* one turn of the loops of loadDeepEntities: the field d.f of the entity d.e
loadDeepEntitiesStep(d, answer) ==
  LET field == DeepFieldNames[d.f]
      val == d.entities[d.e][field]
      ids == IF val.arr THEN val.v ELSE <<val.v>>
      out == loadDeepField(d, field, ids, answer)
      \* fieldEntities[0]
      first == IF Len(out.ret.items) > 0 THEN out.ret.items[1] ELSE Fk("undefined", NoId)
      last == d.e = Len(d.entities) /\ d.f = Len(DeepFieldNames)
      moved == [d EXCEPT !.e = IF d.f = Len(DeepFieldNames) THEN d.e + 1 ELSE d.e,
                         !.f = IF d.f = Len(DeepFieldNames) THEN 1 ELSE d.f + 1,
                         !.status = IF last THEN "done" ELSE "running",
                         !.calls[field] = IF out.called THEN @ + 1 ELSE @,
                         !.failed = @ \/ (out.called /\ answer = FetchFailed)]
  IN  IF out.thrown THEN [d EXCEPT !.status = "thrown"]
      ELSE IF out.ret = NullV THEN moved
      ELSE [moved EXCEPT !.entities[d.e][field] =
              IF val.arr THEN Val(TRUE, out.ret.items) ELSE Val(FALSE, first)]

\* no batch is being resolved and no query is under way.
\* _fullQueryFieldsArray: the field of the service; queries: for each caller
\* where its query is (idle, await, done), its own field list and the deep
\* fields that were resolved for its result
DeepIdle ==
  [entities |-> <<>>, orig |-> <<>>, store |-> {}, registered |-> {}, throwErrors |-> FALSE,
   e |-> 1, f |-> 1, calls |-> [fl \in DeepFieldSet |-> 0], failed |-> FALSE,
   status |-> "idle",
   _fullQueryFieldsArray |-> [def |-> FALSE, items |-> <<>>],
   queries |-> [c \in Callers |-> [pc |-> "idle", fields |-> [def |-> FALSE, items |-> <<>>],
                                   loaded |-> {}]]]

LoadDeepField ==
  /\ deep.status = "running"
  /\ LET field == DeepFieldNames[deep.f]
         val == deep.entities[deep.e][field]
         ids == IF val.arr THEN val.v ELSE <<val.v>>
     IN  \E answer \in DeepAnswers(deep, field, ids) :
           deep' = loadDeepEntitiesStep(deep, answer)
  /\ UNCHANGED <<cacheVars, histVars, authVars, qb, svc, broker>>

\* query.fields: undefined (def = FALSE) or an array of field paths
FieldList(def, items) == [def |-> def, items |-> items]

\* the forFields of loadDeepEntities(res, queryFields): the top-level names
\* of queryFields that are in deepFields; with no queryFields every property
\* of the entity, which has all the deep fields
forFields(queryFields) ==
  IF ~queryFields.def THEN DeepFieldSet
  ELSE {queryFields.items[n][1] : n \in 1..Len(queryFields.items)} \cap DeepFieldSet

\* query(q) of a service with deepFields and without cache, up to the await
\* of its request: removeConfiguredDeepFields keeps q.fields in
\* _fullQueryFieldsArray; a query without fields resets it to undefined
QueryAwait(c, fields) ==
  /\ deep.queries[c].pc = "idle"
  /\ deep' = [deep EXCEPT !._fullQueryFieldsArray = fields,
                          !.queries[c] = [pc |-> "await", fields |-> fields, loaded |-> {}]]
  /\ UNCHANGED <<cacheVars, histVars, authVars, qb, svc, broker>>

\* the request of query c is answered with entities: _query_post_process
\* hands _fullQueryFieldsArray to loadDeepEntities; loaded keeps the deep
\* fields it resolves
QueryPostProcessDeep(c) ==
  /\ deep.queries[c].pc = "await"
  /\ deep' = [deep EXCEPT !.queries[c].pc = "done",
                          !.queries[c].loaded = forFields(deep._fullQueryFieldsArray)]
  /\ UNCHANGED <<cacheVars, histVars, authVars, qb, svc, broker>>

\* the caller has taken the result of query c
QueryDone(c) ==
  /\ deep.queries[c].pc = "done"
  /\ deep' = [deep EXCEPT !.queries[c] = [pc |-> "idle", fields |-> FieldList(FALSE, <<>>),
                                          loaded |-> {}]]
  /\ UNCHANGED <<cacheVars, histVars, authVars, qb, svc, broker>>

\* ------------------------------------------------------ query builder (DB_Query)
MaxOperand == 1

\* a JS value of a query: an object (kind "obj", v its keys and values), an
\* array of primitives (kind "arr") or a primitive (kind "prim")
Node(kind, v) == [kind |-> kind, v |-> v]
\* x instanceof Object
IsObject(n) == n.kind \in {"obj", "arr"}
\* o[key] = val on a copy of the object o
Put(o, key, val) == Node("obj", (key :> val) @@ o.v)

\* dotted field paths, as their segments, and field.split('.') the other way
Paths == {<<"a">>, <<"a", "x">>, <<"a", "y">>}
Join(path) == IF Len(path) = 1 THEN path[1] ELSE path[1] \o "." \o path[2]
\* DB_FieldFilterOperator objects
Conds == {Node("obj", [_eq |-> Node("prim", n)]) : n \in 1..MaxOperand}
           \cup {Node("obj", [_gt |-> Node("prim", 1)])}
\* subqueries given to fieldQuery
SubQueries ==
  {Node("obj", [limit |-> Node("prim", 1)]),
   Node("obj", [limit |-> Node("prim", 1),
                fieldQ |-> Node("obj", [pets |-> Node("obj", [limit |-> Node("prim", 1)])])])}

\* a merge that keeps only the last call's branch under a shared segment
deepMerge_Shallow(target, source) ==
  Node("obj", [key \in DOMAIN target.v \cup DOMAIN source.v |->
         IF key \in DOMAIN source.v THEN source.v[key] ELSE target.v[key]])

\* DB_Query.deepMerge: what target holds after the call.  For two arrays
\* Object.assign writes the elements of source over those of target by index.
\* (A primitive in target under a key that source nests an object under does
\* not arise here: the nodes under a field segment are objects.)
RECURSIVE deepMerge(_, _)
deepMerge(target, source) ==
  IF target.kind = "arr" /\ source.kind = "arr"
  THEN Node("arr", [n \in 1..(IF Len(source.v) > Len(target.v) THEN Len(source.v) ELSE Len(target.v)) |->
                      IF n <= Len(source.v) THEN source.v[n] ELSE target.v[n]])
  ELSE Node("obj", [key \in DOMAIN target.v \cup DOMAIN source.v |->
         IF key \notin DOMAIN source.v THEN target.v[key]
         ELSE IF IsObject(source.v[key]) /\ key \in DOMAIN target.v /\ IsObject(target.v[key])
              THEN deepMerge(target.v[key], source.v[key])
              ELSE source.v[key]])

\* this.query.filter, {} when not set
filtersGet(q) == IF "filter" \in DOMAIN q.v THEN q.v.filter ELSE Node("obj", <<>>)

\* DB_Query.filter
filter(q, field, condition) ==
  LET RECURSIVE Skeleton(_)
      Skeleton(path) == IF Len(path) = 1 THEN Node("obj", (path[1] :> condition))
                        ELSE Node("obj", (path[1] :> Skeleton(Tail(path))))
  IN  Put(q, "filter", deepMerge(filtersGet(q), Skeleton(field)))

\* DB_Query.in
in(q, field, value) ==
  Put(q, "filter", Put(filtersGet(q), Join(field), Node("obj", [_in |-> Node("arr", value)])))

\* DB_Query.fieldQuery
fieldQuery(q, field, sub) ==
  Put(q, "fieldQ", Put(IF "fieldQ" \in DOMAIN q.v THEN q.v.fieldQ ELSE Node("obj", <<>>), field, sub))

\* DB_Query._for_drcts: what it returns (ret) and what it leaves in q
RECURSIVE _for_drcts(_, _)
_for_drcts(q, isDeep) ==
  IF isDeep
  THEN LET Pre(key) == "_" \o key
           ret == [kk \in {Pre(key) : key \in DOMAIN q.v} |->
                     q.v[CHOOSE key \in DOMAIN q.v : Pre(key) = kk]]
       IN  [ret |-> Node("obj", [kk \in DOMAIN ret \ {"deep"} |-> ret[kk]]), q |-> q]
  ELSE IF "fieldQ" \notin DOMAIN q.v THEN [ret |-> q, q |-> q]
  ELSE LET deep0 == IF "deep" \in DOMAIN q.v THEN q.v.deep ELSE Node("obj", <<>>)
           fq == q.v.fieldQ.v
           deep1 == Node("obj", [key \in DOMAIN deep0.v \cup {k \in DOMAIN fq : IsObject(fq[k])} |->
                      IF key \in DOMAIN fq /\ IsObject(fq[key]) THEN _for_drcts(fq[key], TRUE).ret
                      ELSE deep0.v[key]])
           copy == [key \in (DOMAIN q.v \cup {"deep"}) \ {"fieldQ"} |->
                      IF key = "deep" THEN deep1 ELSE q.v[key]]
       IN  [ret |-> Node("obj", copy),
            \* ret.deep is q.deep itself when q has one
            q |-> IF "deep" \in DOMAIN q.v THEN Put(q, "deep", deep1) ELSE q]

\* a conversion that works on the builder's query instead of a copy
for_InPlace(q, qType) ==
  LET out == _for_drcts(q, FALSE) IN [ret |-> out.ret, q |-> out.ret, thrown |-> FALSE]

\* DB_Query.for; DB_Query.defaultDBType is directus
for(q, qType) ==
  IF (IF qType = "" THEN "directus" ELSE qType) = "directus"
  THEN LET out == _for_drcts(q, FALSE) IN [ret |-> out.ret, q |-> out.q, thrown |-> FALSE]
  ELSE [ret |-> Node("undefined", 0), q |-> q, thrown |-> TRUE]

\* a new builder: query = {...DB_Query.defaultQuery}; last is the last call
\* made on it with its arguments, what it returned and whether it threw
QbIdle ==
  [query |-> Node("obj", [limit |-> Node("prim", 100)]),
   last |-> [op |-> "new", field |-> <<>>, arg |-> Node("undefined", 0),
             ret |-> Node("undefined", 0), thrown |-> FALSE]]

QbCall(query, op, field, arg, ret, thrown) ==
  /\ qb' = [query |-> query,
            last |-> [op |-> op, field |-> field, arg |-> arg, ret |-> ret, thrown |-> thrown]]
  /\ UNCHANGED <<cacheVars, histVars, authVars, deep, svc, broker>>

\* filter(field, condition); equal, not, greater, less, contains, isNull and
\* notIn are filter(field, {_eq: value}), filter(field, {_gt: than}), ...
Filter(field, condition) ==
  QbCall(filter(qb.query, field, condition), "filter", field, condition,
         Node("undefined", 0), FALSE)

In(field, value) ==
  QbCall(in(qb.query, field, value), "in", field, Node("arr", value), Node("undefined", 0), FALSE)

FieldQuery(field, sub) ==
  QbCall(fieldQuery(qb.query, field, sub), "fieldQuery", <<field>>, sub, Node("undefined", 0), FALSE)

For(qType) ==
  LET out == for(qb.query, qType)
  IN  QbCall(out.q, "for", <<qType>>, Node("undefined", 0), out.ret, out.thrown)

\* the DB_FieldFilterOperator that a comparison method of DB_Query hands to
\* filter: equal {_eq}, not {_neq}, greater {_gt}, less {_lt}, notIn {_nin},
\* contains {_contains} or, when caseInsensitive, {_icontains}
FieldFilterOperator(method, value, caseInsensitive) ==
  LET key == CASE method = "equal" -> "_eq"
               [] method = "not" -> "_neq"
               [] method = "greater" -> "_gt"
               [] method = "less" -> "_lt"
               [] method = "notIn" -> "_nin"
               [] OTHER -> IF caseInsensitive THEN "_icontains" ELSE "_contains"
  IN  Node("obj", (key :> value))

\* equal(field, value), not(field, value), greater(field, than),
\* less(field, than), contains(field, value, caseInsensitive),
\* notIn(field, value)
Compare(method, field, value, caseInsensitive) ==
  QbCall(filter(qb.query, field, FieldFilterOperator(method, value, caseInsensitive)), method, field,
         FieldFilterOperator(method, value, caseInsensitive), Node("undefined", 0), FALSE)

\* ------------------------------------- entity service calls (directus adapter)
\* An error message is the set of the markers that the code looks for in it:
\* "permission", "oken expired", "token", "Invalid user credentials".
\* What a request to the server can do: succeed, or fail with a message
Outcomes ==
  {[ok |-> TRUE, msg |-> {}]} \cup
  {[ok |-> FALSE, msg |-> m] :
     m \in {{}, {"permission"}, {"oken expired"}}}

\* a service before its first call.  readonly, throwErrors: its options;
\* nameMarked: its entityName contains 'permission'; lastError: the error
\* slot; the other fields describe the last call: what it returned (ret:
\* "value", "string", "empty" for [], "thrown"), the string it returned, whether it
\* failed, its requests to the server (dataCalls, of which retries), its
\* checkLogin(true) calls (rechecks), its login() calls and the first error a
\* request of it met
SvcIdle ==
  [readonly |-> FALSE, throwErrors |-> FALSE, nameMarked |-> FALSE,
   lastError |-> [e |-> FALSE, msg |-> {}],
   op |-> "new", ret |-> "value", retMsg |-> {}, failed |-> FALSE,
   dataCalls |-> 0, retries |-> 0, rechecks |-> 0, logins |-> 0,
   firstErr |-> [e |-> FALSE, msg |-> {}]]

\* DB_EntityService_Base.retErrorString: the service afterwards, whether it
\* threw, the string it returned, whether it called checkLogin(true)
retErrorString(s, errorObject, forceThrow) ==
  LET s1 == [s EXCEPT !.lastError = [e |-> TRUE, msg |-> errorObject]]
      relogin == "oken expired" \in errorObject \/ "permission" \in errorObject
  IN  IF s.throwErrors \/ forceThrow
      THEN [s |-> s1, thrown |-> TRUE, str |-> errorObject, recheck |-> FALSE]
      ELSE [s |-> [s1 EXCEPT !.rechecks = IF relogin THEN @ + 1 ELSE @],
            thrown |-> FALSE, str |-> errorObject, recheck |-> relogin]

\* The calls of DB_EntityServiceBase_Directus, each as a whole.  s: the
\* service, c: its cache, st: srvInfo.isLoggedIn, op: the method, a: the id the
\* call is about, whether its arguments are valid (the server is registered, an
\* id is given, the ids are within the limit, the query has a limit), the
\* outcomes of its first and of its second request and whether a login
\* succeeds.  The query is one by id with skipCache.
DirectusCall(s, c, st, op, a) ==
  LET q == Query("eq", a.id, <<>>, NoVal, TRUE)
      item == Item(a.id, NoVal)
      s0 == [s EXCEPT !.op = op, !.ret = "value", !.retMsg = {}, !.failed = FALSE,
                      !.dataCalls = 0, !.retries = 0, !.rechecks = 0, !.logins = 0,
                      !.firstErr = [e |-> FALSE, msg |-> {}]]
      lastErrorReset(s1) == [s1 EXCEPT !.lastError = [e |-> FALSE, msg |-> {}]]
      \* eff is what the call does to the cache: "none"; "store", "empty":
      \* _query_post_process of the item, of []; "store2": of the item twice;
      \* "delete": cacheDelete of the id
      Return(s1, eff, st1, ret) == [s |-> [s1 EXCEPT !.ret = ret], c |-> eff, st |-> st1]
      \* return this.retErrorString(err, forceThrow)
      ReturnError(s1, st1, err, forceThrow) ==
        LET r == retErrorString(s1, err, forceThrow)
        IN  [s |-> [r.s EXCEPT !.failed = TRUE, !.retMsg = r.str,
                               !.ret = IF r.thrown THEN "thrown" ELSE "string"],
             c |-> "none",
             st |-> IF r.recheck THEN IsLoginStatus_ndef ELSE st1]
      \* a request that met the error err
      Failed(s1, err) ==
        [s1 EXCEPT !.dataCalls = @ + 1,
                   !.firstErr = IF @.e THEN @ ELSE [e |-> TRUE, msg |-> err]]
      Sent(s1) == [s1 EXCEPT !.dataCalls = @ + 1]
      \* try { request } catch(e) { return this.retErrorString(e) }
      Try(s1, done) ==
        IF a.first.ok THEN done
        ELSE ReturnError(Failed(s1, a.first.msg), st, a.first.msg, FALSE)
      handlePermissionError(errStr) ==
        "permission" \in errStr \/ "token" \in errStr \/ "Invalid user credentials" \in errStr
      \* a request followed by handlePermissionError, as in query and add:
      \* o1, o2 are the outcomes of the request and of its retry
      Retried(s1, st1, o1, o2, isQuery) ==
        LET \* catch(e2)
            Caught(s2, st2, e2) ==
              IF isQuery
              THEN Return([s2 EXCEPT !.failed = TRUE], "empty", st2, "empty")
              ELSE ReturnError(s2, st2, e2, FALSE)
            r == retErrorString(Failed(s1, o1.msg), o1.msg, FALSE)
            st2 == IF r.recheck THEN IsLoginStatus_ndef ELSE st1
            s3 == [r.s EXCEPT !.logins = @ + 1]
            s4 == [s3 EXCEPT !.dataCalls = @ + 1, !.retries = @ + 1]
        IN  IF o1.ok THEN Return(Sent(s1), "store", st1, "value")
            ELSE IF r.thrown
            THEN Return([r.s EXCEPT !.failed = TRUE, !.retMsg = r.str], "none", st1, "thrown")
            ELSE IF ~handlePermissionError(o1.msg) THEN Caught(r.s, st2, o1.msg)
            ELSE IF ~a.login THEN Caught(s3, IsLoginStatus_not, o1.msg)
            ELSE IF o2.ok THEN Return(s4, "store", IsLoginStatus_yes, "value")
            ELSE Caught(s4, IsLoginStatus_yes, o2.msg)
      readonly == ReturnError(s0, st, IF s.nameMarked THEN {"permission"} ELSE {}, FALSE)
      cached == Return(Sent(lastErrorReset(s0)), "store", st, "value")
      add(s1, st1, o1, o2) == Retried(lastErrorReset(s1), st1, o1, o2, FALSE)
      \* query logs in first when the server is not logged in
      query ==
        LET s1 == lastErrorReset(s0)
            now == IF a.login THEN IsLoginStatus_yes ELSE IsLoginStatus_not
        IN  IF st > IsLoginStatus_ndef THEN Retried(s1, st, a.first, a.second, TRUE)
            ELSE Retried([s1 EXCEPT !.logins = IF a.login THEN 1 ELSE 2], now,
                         a.first, a.second, TRUE)
      deleted == Return(Sent(lastErrorReset(s0)), "delete", st, "value")
      out ==
      CASE op = "constructor" ->
             IF a.valid THEN Return(s0, "none", st, "value")
             ELSE ReturnError(s0, st, {}, TRUE)
        [] op = "query" -> query
        [] s.readonly -> readonly
        [] op = "add" -> add(s0, st, a.first, a.second)
        [] op = "update" ->
             IF ~a.valid THEN ReturnError(lastErrorReset(s0), st, {}, FALSE)
             ELSE Try(lastErrorReset(s0), cached)
        [] op = "batchUpdate" ->
             IF ~a.valid THEN ReturnError(s0, st, {}, FALSE)
             ELSE Try(lastErrorReset(s0), cached)
        [] op = "upsert" ->
             IF a.valid /\ a.first.ok THEN cached
             ELSE LET s1 == IF a.valid THEN Failed(lastErrorReset(s0), a.first.msg)
                                       ELSE lastErrorReset(s0)
                      added == add(s1, st, a.second, a.second)
                  IN  IF added.s.ret # "value" THEN added
                      ELSE [added EXCEPT !.c = "store2"]
        [] op = "delete" ->
             Try(lastErrorReset(s0), deleted)
        [] op = "deleteIds" ->
             IF ~a.valid THEN ReturnError(s0, st, {}, FALSE)
             ELSE Try(lastErrorReset(s0), deleted)
        [] op = "batchDelete" ->
             IF ~a.valid THEN ReturnError(s0, st, {}, FALSE)
             ELSE Try(lastErrorReset(s0), Return(Sent(lastErrorReset(s0)), "none", st, "value"))
      stored == QueryPostProcess(c, q, <<item>>)
  IN  [s |-> out.s, st |-> out.st,
       c |-> CASE out.c = "store" -> stored
               [] out.c = "store2" -> QueryPostProcess(stored, q, <<item>>)
               [] out.c = "empty" -> QueryPostProcess(c, q, <<>>)
               [] out.c = "delete" -> cacheDelete(c, a.id)
               [] OTHER -> c]

\* one call of the service
ServiceCall(op, a) ==
  LET out == DirectusCall(svc, CacheRec, srvInfo.isLoggedIn, op, a)
  IN  /\ svc' = out.s
      /\ CacheAssign(out.c)
      /\ srvInfo' = [srvInfo EXCEPT !.isLoggedIn = out.st]
      /\ lastOp' = Op(op, a.id)
      /\ setLog' = Void
      /\ UNCHANGED <<enableOk, calls, deep, qb, broker>>


\* ------------------------------------------------ the broker (DB_BrokerService)
MaxTimers == 2
MaxSubs == 2
MaxEntities == 2

\* the servers of the registry
ServerNames == {"s1", "s2"}

\* Partial<DB_ServerInfo>: the keys an object holds and their values.  token 0
\* is a falsy token ('' or undefined); type stands for 'directus'; entities is
\* an array: ref tells whether it is the array the server holds ("stored") or
\* another array object ("fresh"), items its content.  Values of the keys the
\* object does not hold are left at a default.
Partial(keys, st, tok, ent) ==
  [keys |-> keys,
   isLoggedIn |-> IF "isLoggedIn" \in keys THEN st ELSE IsLoginStatus_ndef,
   token |-> IF "token" \in keys THEN tok ELSE 0,
   entities |-> IF "entities" \in keys THEN ent ELSE [ref |-> "fresh", items |-> <<>>]]

\* DB_BrokerService.getChanges: a missing oldSrv gives newSrv itself; else the
\* keys of newSrv whose value !== the old one (an array !== any other array)
getChanges(existed, oldSrv, newSrv) ==
  IF ~existed THEN newSrv
  ELSE LET differs(k) ==
             CASE k = "isLoggedIn" -> newSrv.isLoggedIn # oldSrv.isLoggedIn
               [] k = "token" -> newSrv.token # oldSrv.token
               [] k = "entities" -> newSrv.entities.ref # "stored"
               [] OTHER -> ~oldSrv.type
       IN  Partial({k \in newSrv.keys : differs(k)}, newSrv.isLoggedIn, newSrv.token,
                   newSrv.entities)

\* the variant that calls the callbacks at once instead of setTimeout(..., 0)
notifyServerUpdates_Sync(b, serverName, updates) ==
  LET subs == b.subs[serverName] \o b.subs["-any-"]
      RECURSIVE Run(_, _)
      Run(b1, k) ==
        IF k > Len(subs) THEN b1
        ELSE Run([b1 EXCEPT !.ran = Append(@, subs[k])], k + 1)
  IN  Run(b, 1)

\* the variant that forgets the wildcard subscribers
notifyServerUpdates_NoAny(b, serverName, updates) ==
  LET subs == b.subs[serverName]
  IN  [b EXCEPT !.timers = @ \o [k \in 1..Len(subs) |->
                                   [cb |-> subs[k], name |-> serverName, updates |-> updates]]]

\* DB_BrokerService.notifyServerUpdates: one timer per callback subscribed to
\* the server, then one per callback subscribed to '-any-'
notifyServerUpdates(b, serverName, updates) ==
  LET timer(cb) == [cb |-> cb, name |-> serverName, updates |-> updates]
      subs == b.subs[serverName] \o b.subs["-any-"]
  IN  [b EXCEPT !.timers = @ \o [k \in 1..Len(subs) |-> timer(subs[k])]]

RECURSIVE brokerUpsertServer(_, _, _, _, _)

\* DB_BrokerService._loginServer with the part of loginToServer before its
\* first await (someService is never set; the login function exists when the
\* type is set).  A request to the server is then pending.
_loginServer(b, serverName) ==
  LET srv == b.servers[serverName]
      set(st) == brokerUpsertServer(b, serverName, Partial({"isLoggedIn"}, st, 0, 0),
                                    FALSE, TRUE).b
  IN  IF ~srv.type THEN [b EXCEPT !.servers[serverName].isLoggedIn = IsLoginStatus_error]
      ELSE IF srv.isLoggedIn > IsLoginStatus_ndef \/ srv.isLoggedIn = IsLoginStatus_waiting
      THEN b
      ELSE IF srv.token = 0 THEN set(IsLoginStatus_error)
      ELSE [set(IsLoginStatus_waiting) EXCEPT !.pending[serverName] = @ + 1]

\* DB_BrokerService.upsertServer.  Gives the broker afterwards, the changes it
\* found, whether it started a login and whether the server existed.
brokerUpsertServer(b, serverName, changesIn, doLogin, notifySubscribers) ==
  LET existed == serverName \in DOMAIN b.servers
      created == [isLoggedIn |-> IsLoginStatus_not, token |-> 0, type |-> "type" \in changesIn.keys,
                  entities |-> IF "entities" \in changesIn.keys THEN changesIn.entities.items
                               ELSE <<>>]
      oldSrv == IF existed THEN b.servers[serverName] ELSE created
      realChanges == getChanges(existed, oldSrv, changesIn)
      \* Object.assign(srvRef, realChanges), after the login function was added
      srv == [isLoggedIn |-> IF "isLoggedIn" \in realChanges.keys THEN realChanges.isLoggedIn
                             ELSE oldSrv.isLoggedIn,
              token |-> IF "token" \in realChanges.keys THEN realChanges.token ELSE oldSrv.token,
              entities |-> IF "entities" \in realChanges.keys THEN realChanges.entities.items
                           ELSE oldSrv.entities,
              type |-> oldSrv.type \/ "type" \in changesIn.keys]
      b1 == [b EXCEPT !.servers = (serverName :> srv) @@ @]
      b2 == IF notifySubscribers /\ realChanges.keys # {}
            THEN notifyServerUpdates([b1 EXCEPT !.notes = Append(@, serverName)],
                                     serverName, realChanges)
            ELSE b1
      login == /\ doLogin /\ srv.isLoggedIn <= 0 /\ srv.type
               /\ "token" \in realChanges.keys /\ realChanges.token # 0
  IN  [b |-> IF login THEN _loginServer(b2, serverName) ELSE b2,
       real |-> realChanges, login |-> login, existed |-> existed]

\* a broker without servers and subscribers.  timers: the callbacks that
\* setTimeout holds, in order; pending: the login requests the server has not
\* answered; ran: the callbacks that ran during the last step; notes: the
\* servers whose change the last step notified; serviceByEntity: the service
\* instance kept for each entity name (0: none); route: the last call of
\* getServerByEntity, what it returned ("": undefined) and whether the
\* constructor that made it threw; last: the last call; owed: for each server the status that loginServer or the
\* answer to a login request set last and that has not been delivered to a
\* subscriber, as a set of at most one status
\* gone: the callbacks that unsubscribe has removed
BrokerIdle ==
  [servers |-> <<>>,
   subs |-> [t \in ServerNames \cup {"-any-"} |-> <<>>],
   timers |-> <<>>,
   pending |-> [n \in ServerNames |-> 0],
   ran |-> <<>>,
   notes |-> <<>>,
   serviceByEntity |-> [e \in {"users", "vcard", "pets"} |-> 0],
   route |-> [prefix |-> "", name |-> "", inst |-> 0, ret |-> "", thrown |-> FALSE],
   last |-> "new",
   owed |-> [n \in ServerNames |-> {}],
   gone |-> {}]

\* the step of the broker to b by the call op, in which the timers fired ran
BrokerAssign(b, op, fired) ==
  LET changed(n) == /\ n \in DOMAIN broker.servers
                    /\ b.servers[n].isLoggedIn # broker.servers[n].isLoggedIn
      listened(n) == b.subs[n] \o b.subs["-any-"] # <<>>
      delivered(n) == \E k \in 1..Len(fired) :
                        /\ fired[k].name = n /\ "isLoggedIn" \in fired[k].updates.keys
                        /\ fired[k].updates.isLoggedIn \in broker.owed[n]
      owed(n) == IF changed(n) /\ listened(n) /\ op \in {"loginServer", "loginAnswer"}
                 THEN {b.servers[n].isLoggedIn}
                 ELSE IF delivered(n) THEN {} ELSE broker.owed[n]
  IN  /\ Len(b.timers) <= MaxTimers
      /\ \A n \in ServerNames : b.pending[n] <= 1
      /\ broker' = [b EXCEPT !.last = op, !.owed = [n \in ServerNames |-> owed(n)]]
      /\ UNCHANGED <<cacheVars, histVars, authVars, deep, qb, svc>>

\* broker.upsertServer(serverName, changes, doLogin, notifySubscribers)
BrokerUpsert(serverName, changes, doLogin, notify) ==
  BrokerAssign(brokerUpsertServer([broker EXCEPT !.ran = <<>>, !.notes = <<>>], serverName, changes,
                                  doLogin, notify).b, "upsertServer", <<>>)

\* broker.loginServer(serverName)
BrokerLoginServer(serverName) ==
  LET b == [broker EXCEPT !.ran = <<>>, !.notes = <<>>]
  IN  BrokerAssign(IF serverName \in DOMAIN b.servers THEN _loginServer(b, serverName) ELSE b,
                   "loginServer", <<>>)

\* the server answers a login request: loginToServer goes on after its await
BrokerLoginAnswer(serverName, ok) ==
  /\ broker.pending[serverName] > 0
  /\ LET b == [broker EXCEPT !.ran = <<>>, !.notes = <<>>, !.pending[serverName] = @ - 1]
         changes == Partial({"isLoggedIn"},
                            IF ok THEN IsLoginStatus_yes ELSE IsLoginStatus_not, 0, 0)
     IN  BrokerAssign(brokerUpsertServer(b, serverName, changes, FALSE, TRUE).b,
                      "loginAnswer", <<>>)

\* broker.subscribe(toServer, callback) with a callback not subscribed before
Subscribe(toServer) ==
  LET n == Len(broker.subs["s1"]) + Len(broker.subs["s2"]) + Len(broker.subs["-any-"])
  IN  /\ n < MaxSubs
      /\ BrokerAssign([broker EXCEPT !.ran = <<>>, !.notes = <<>>, !.subs[toServer] = Append(@, n + 1)],
                      "subscribe", <<>>)

\* the timer at the head of the queue fires: its callback runs, and may call
\* upsertServer itself (react), as the subscriber's code decides
Dispatch(react, serverName, changes) ==
  /\ broker.timers # <<>>
  /\ LET t == Head(broker.timers)
         b == [broker EXCEPT !.timers = Tail(@), !.ran = <<t.cb>>, !.notes = <<>>]
     IN  BrokerAssign(IF react THEN brokerUpsertServer(b, serverName, changes, FALSE, TRUE).b
                      ELSE b,
                      IF react THEN "react" ELSE "dispatch", <<t>>)

\* DB_BrokerService.unsubscribe: from the list of every server the first
\* occurrence of the callback is spliced out
unsubscribe(b, callback) ==
  LET first(subs) == CHOOSE k \in 1..Len(subs) :
                       subs[k] = callback /\ \A j \in 1..(k - 1) : subs[j] # callback
      splice(subs) == IF \E k \in 1..Len(subs) : subs[k] = callback
                      THEN SubSeq(subs, 1, first(subs) - 1)
                             \o SubSeq(subs, first(subs) + 1, Len(subs))
                      ELSE subs
  IN  [b EXCEPT !.subs = [t \in DOMAIN @ |-> splice(@[t])]]

\* broker.unsubscribe(callback); gone keeps the callbacks that were
\* unsubscribed and not subscribed again since
Unsubscribe(callback) ==
  BrokerAssign([unsubscribe([broker EXCEPT !.ran = <<>>, !.notes = <<>>], callback)
                  EXCEPT !.gone = @ \cup {callback}],
               "unsubscribe", <<>>)

\* broker.subscribe(toServer, callback) with any callback, subscribed before
\* or not
SubscribeCallback(toServer, callback) ==
  /\ Len(broker.subs["s1"]) + Len(broker.subs["s2"]) + Len(broker.subs["-any-"]) < MaxSubs
  /\ BrokerAssign([broker EXCEPT !.ran = <<>>, !.notes = <<>>,
                                 !.subs[toServer] = Append(@, callback),
                                 !.gone = @ \ {callback}],
                  "subscribe", <<>>)

\* the variant of getServerByEntity that keeps the instance also when no
\* server was found
getServerByEntity_Always(b, prefix, entityName, serviceInstance) ==
  [b |-> IF serviceInstance = 0 THEN b
         ELSE [b EXCEPT !.serviceByEntity[entityName] = serviceInstance],
   ret |-> IF prefix \in DOMAIN b.servers THEN prefix ELSE ""]

\* DB_BrokerService.getServerByEntity for the name prefix:entityName, or
\* entityName alone when prefix is "".  Object.keys gives the servers in the
\* order s1, s2 in which they were added.  `entityName in ret.entities` looks
\* for an index of the array, which no entity name is, so the name is always
\* pushed.
getServerByEntity(b, prefix, entityName, serviceInstance) ==
  LET includes(n) == /\ n \in DOMAIN b.servers
                     /\ \E k \in 1..Len(b.servers[n].entities) :
                          b.servers[n].entities[k] = entityName
      ret == IF prefix # "" THEN (IF prefix \in DOMAIN b.servers THEN prefix ELSE "")
             ELSE IF includes("s1") THEN "s1"
             ELSE IF includes("s2") THEN "s2" ELSE ""
      b1 == [b EXCEPT !.servers[ret].entities = Append(@, entityName)]
  IN  [b |-> IF ret = "" THEN b
             ELSE IF serviceInstance = 0 THEN b1
             ELSE [b1 EXCEPT !.serviceByEntity[entityName] = serviceInstance],
       ret |-> ret]

\* broker.getServerByEntity(name) for serviceInstance = 0; else the call that
\* the constructor of the service serviceInstance makes, which throws through
\* retErrorString(..., true) when no server is found
GetServerByEntity(prefix, entityName, serviceInstance, throwErrors) ==
  LET out == getServerByEntity([broker EXCEPT !.ran = <<>>, !.notes = <<>>], prefix,
                               entityName, serviceInstance)
      thrown == /\ serviceInstance # 0 /\ out.ret = ""
                /\ retErrorString([SvcIdle EXCEPT !.throwErrors = throwErrors], {}, TRUE).thrown
  IN  /\ \A n \in DOMAIN out.b.servers : Len(out.b.servers[n].entities) <= MaxEntities
      /\ BrokerAssign([out.b EXCEPT !.route = [prefix |-> prefix, name |-> entityName,
                                               inst |-> serviceInstance, ret |-> out.ret,
                                               thrown |-> thrown]],
                      "getServerByEntity", <<>>)

\* DB_BrokerService.getServiceByEntity: this.serviceByEntity[entityName] for
\* the name exactly as it is given, 'prefix:entityName' when it has a prefix;
\* 0 is undefined
getServiceByEntity(b, prefix, entityName) ==
  LET key == IF prefix = "" THEN entityName ELSE prefix \o ":" \o entityName
  IN  IF key \in DOMAIN b.serviceByEntity THEN b.serviceByEntity[key] ELSE 0

\* the lookup that _loadDeepField makes for the entity type of a deep field;
\* route.inst is the service it found
GetServiceByEntity(prefix, entityName) ==
  BrokerAssign([broker EXCEPT !.ran = <<>>, !.notes = <<>>,
                              !.route = [prefix |-> prefix, name |-> entityName,
                                         inst |-> getServiceByEntity(broker, prefix, entityName),
                                         ret |-> "", thrown |-> FALSE]],
               "getServiceByEntity", <<>>)

\* ------------------------------------------------------------ specifications
NoOp == [op |-> "new", id |-> NoId, afterSet |-> FALSE]

InitCache ==
  /\ cache = CacheInit.cache
  /\ cacheMaxItems = CacheInit.cacheMaxItems
  /\ cachedItems = CacheInit.cachedItems
  /\ cacheIndexKeys = CacheInit.cacheIndexKeys
  /\ cacheIndex = CacheInit.cacheIndex
  /\ cacheLastLoadedItem = CacheInit.cacheLastLoadedItem
  /\ cacheLastLoadedItemID = CacheInit.cacheLastLoadedItemID
  /\ enableOk = TRUE
  /\ setLog = Void
  /\ lastOp = NoOp

\* the parts of the state a specification does not exercise
InitExt(vs) ==
  /\ "deep" \in vs \/ deep = DeepIdle
  /\ "qb" \in vs \/ qb = QbIdle
  /\ "svc" \in vs \/ svc = SvcIdle
  /\ "broker" \in vs \/ broker = BrokerIdle

\* a new service on a server that is logged in
Init ==
  /\ InitCache
  /\ srvInfo = SrvInfo(IsLoginStatus_yes, 1, TRUE, TRUE)
  /\ calls = [c \in Callers |-> Idle]
  /\ InitExt({})

\* a server the broker has just created from its config: upsertServer sets
\* isLoggedIn to IsLoginStatus.not
InitAuth ==
  /\ InitCache
  /\ srvInfo \in {SrvInfo(IsLoginStatus_not, cred, fn, FALSE) :
                    cred \in Creds \cup {NoCred}, fn \in BOOLEAN}
  /\ calls = [c \in Callers |-> Idle]
  /\ InitExt({})

NullArgs == {<<NoField, NoVal>>} \cup {<<f, v>> : f \in Fields, v \in Vals}

NextCache ==
  \/ \E ib \in SUBSET Fields, n \in 1..MaxItemsBound : CacheEnable(ib, n)
  \/ \E x \in Items, a \in (Fields \ cacheIndexKeys) \cup {NoField} : CacheSet(x, a)
  \/ \E i \in Ids, a \in NullArgs : CacheSetNullItem(i, a[1], a[2])
  \/ \E i \in Ids : CacheDelete(i)

\* the cache object alone
SpecCache == Init /\ [][NextCache]_vars

NextById ==
  \/ NextCache
  \/ \E q \in GetByIdQueries : QueryCached(q)
  \/ \E q \in GetByIdQueries : QueryBackend(q)

\* the service with its cache, queried through getById
SpecById == Init /\ [][NextById]_vars

Next ==
  \/ NextCache
  \/ \E q \in Queries : QueryCached(q)
  \/ \E q \in Queries : QueryBackend(q)

\* the service with its cache, queried by id, by id list and by status
Spec == Init /\ [][Next]_vars

NextAuth ==
  \/ \E c \in Callers : NewService(c)
  \/ \E c \in Callers, recheck \in BOOLEAN : CheckLogin(c, recheck)
  \/ \E c \in Callers, cred \in Creds \cup {NoCred}, doLogin \in BOOLEAN :
       UpsertServer(c, cred, doLogin)
  \/ \E c \in Callers : LoginServer(c)
  \/ \E c \in Callers, ok \in BOOLEAN : LoginAnswer(c, ok)
  \/ \E c \in Callers : LoginPoll(c)
  \/ \E c \in Callers : WaitForLogin(c)
  \/ \E c \in Callers : WaitPoll(c)
  \/ \E c \in Callers, ok \in BOOLEAN : LogoutAnswer(c, ok)
  \/ \E c \in Callers : Logout(c)
  \/ \E c \in Callers : Done(c)

\* the callers of one server's login
SpecAuth == InitAuth /\ [][NextAuth]_vars
\* _query_post_process hands a batch of at least one entity to loadDeepEntities
InitDeep ==
  /\ InitCache
  /\ srvInfo = SrvInfo(IsLoginStatus_yes, 1, TRUE, TRUE)
  /\ calls = [c \in Callers |-> Idle]
  /\ deep \in {[DeepIdle EXCEPT !.entities = b, !.orig = b, !.store = st,
                                !.registered = rg, !.throwErrors = te, !.status = "running"] :
                 b \in Batches, st \in SUBSET Ids, rg \in SUBSET DeepFieldSet, te \in BOOLEAN}
  /\ InitExt({"deep"})

\* loadDeepEntities over one result batch
SpecDeep == InitDeep /\ [][LoadDeepField]_vars

InitBuilder ==
  /\ InitCache
  /\ srvInfo = SrvInfo(IsLoginStatus_yes, 1, TRUE, TRUE)
  /\ calls = [c \in Callers |-> Idle]
  /\ qb = QbIdle
  /\ InitExt({"qb"})

NextBuilder ==
  \/ \E field \in Paths, condition \in Conds : Filter(field, condition)
  \/ \E field \in {<<"a">>, <<"a", "x">>} : In(field, <<2>>)
  \/ \E sub \in SubQueries : FieldQuery("kids", sub)
  \/ \E qType \in {"directus", "mysql", ""} : For(qType)

\* one query builder
SpecBuilder == InitBuilder /\ [][NextBuilder]_vars

InitService ==
  /\ InitCache
  /\ srvInfo = SrvInfo(IsLoginStatus_yes, 1, TRUE, TRUE)
  /\ calls = [c \in Callers |-> Idle]
  /\ svc \in {[SvcIdle EXCEPT !.readonly = ro, !.throwErrors = te, !.nameMarked = nm] :
                ro \in BOOLEAN, te \in BOOLEAN, nm \in BOOLEAN}
  /\ InitExt({"svc"})

\* the arguments and server answers that a call of the method op depends on;
\* every call is about the entity 1
ServiceArgs(op) ==
  LET ok == [ok |-> TRUE, msg |-> {}]
      Retry == {o \in Outcomes : o.msg \subseteq {"permission"}}
  IN  CASE op = "constructor" ->
             [id : {1}, valid : BOOLEAN, first : {ok}, second : {ok}, login : {TRUE}]
        [] op \in {"query", "add"} ->
             [id : {1}, valid : {TRUE}, first : Outcomes, second : Retry, login : BOOLEAN]
        [] op = "upsert" ->
             [id : {1}, valid : BOOLEAN, first : Outcomes, second : Retry, login : BOOLEAN]
        [] op = "delete" ->
             [id : {1}, valid : {TRUE}, first : Outcomes, second : {ok}, login : {TRUE}]
        [] OTHER ->
             [id : {1}, valid : BOOLEAN, first : Outcomes, second : {ok}, login : {TRUE}]

NextService ==
  \/ \E n \in 1..MaxItemsBound : CacheEnable({}, n)
  \/ \E op \in {"constructor", "query", "add", "update", "batchUpdate", "upsert",
                 "delete", "deleteIds", "batchDelete"} :
        \E a \in ServiceArgs(op) : ServiceCall(op, a)

\* one entity service, its cache and its server
SpecService == InitService /\ [][NextService]_vars

\* a broker constructed without a config
InitBroker ==
  /\ InitCache
  /\ srvInfo = SrvInfo(IsLoginStatus_yes, 1, TRUE, TRUE)
  /\ calls = [c \in Callers |-> Idle]
  /\ broker = BrokerIdle
  /\ InitExt({"broker"})

\* the changes the callers hand to upsertServer: no key, one key, or the
\* status together with a token
BrokerChanges(serverName) ==
  LET stored == IF serverName \in DOMAIN broker.servers
                THEN {[ref |-> "stored", items |-> broker.servers[serverName].entities]}
                ELSE {}
      arrays == stored \cup {[ref |-> "fresh", items |-> <<"users">>]}
  IN  {Partial({}, 0, 0, 0), Partial({"type"}, 0, 0, 0),
       Partial({"isLoggedIn"}, IsLoginStatus_yes, 0, 0)}
      \cup {Partial({"token"}, 0, tok, 0) : tok \in {0} \cup Creds}
      \cup {Partial({"isLoggedIn", "token"}, IsLoginStatus_yes, tok, 0) : tok \in Creds}
      \cup {Partial({"entities"}, 0, 0, ent) : ent \in arrays}

\* the callers work on the server s1; s2 is only subscribed to.  The callbacks
\* are numbered as they are subscribed.
NextBroker ==
  \/ \E doLogin \in BOOLEAN, notify \in BOOLEAN :
        \E changes \in BrokerChanges("s1") : BrokerUpsert("s1", changes, doLogin, notify)
  \/ BrokerLoginServer("s1")
  \/ \E ok \in BOOLEAN : BrokerLoginAnswer("s1", ok)
  \/ \E t \in ServerNames \cup {"-any-"} : Subscribe(t)
  \/ Dispatch(FALSE, "s1", Partial({}, 0, 0, 0))
  \/ \E tok \in {0} \cup Creds : Dispatch(TRUE, "s1", Partial({"token"}, 0, tok, 0))

\* the broker, its subscribers and the timers of its notifications
SpecBroker == InitBroker /\ [][NextBroker]_vars

\* the same, where setTimeout runs every callback it holds
SpecBrokerFair == SpecBroker /\ WF_vars(Dispatch(FALSE, "s1", Partial({}, 0, 0, 0)))

\* a broker constructed from a config with the servers s1 and s2, or s1 alone
InitRouting ==
  /\ InitCache
  /\ srvInfo = SrvInfo(IsLoginStatus_yes, 1, TRUE, TRUE)
  /\ calls = [c \in Callers |-> Idle]
  /\ broker \in
       {brokerUpsertServer(
          brokerUpsertServer(BrokerIdle, "s1",
                             Partial({"entities", "type"}, 0, 0,
                                     [ref |-> "fresh", items |-> e1]), FALSE, TRUE).b,
          "s2", Partial({"entities", "type"}, 0, 0, [ref |-> "fresh", items |-> e2]),
          FALSE, TRUE).b :
            e1 \in {<<>>, <<"users">>}, e2 \in {<<"vcard">>, <<"users", "vcard">>}}
       \cup {brokerUpsertServer(BrokerIdle, "s1",
                                Partial({"entities", "type"}, 0, 0,
                                        [ref |-> "fresh", items |-> <<"users">>]), FALSE, TRUE).b}
  /\ InitExt({"broker"})

\* the services and callers that look a server up by entity name
SpecRouting ==
  InitRouting /\
  [][\E prefix \in {"", "s1", "s2"}, entityName \in {"users", "vcard", "pets"},
        serviceInstance \in 0..MaxCallers, throwErrors \in BOOLEAN :
        GetServerByEntity(prefix, entityName, serviceInstance, throwErrors)]_vars

\* services constructed for an entity, and the lookups that deep-field
\* resolution makes for an entity type
SpecDeepLookup ==
  InitRouting /\
  [][\E prefix \in {"", "s1", "s2"}, entityName \in {"users", "vcard"} :
        \/ \E serviceInstance \in 1..MaxCallers :
              GetServerByEntity(prefix, entityName, serviceInstance, FALSE)
        \/ GetServiceByEntity(prefix, entityName)]_vars

\* the service with its cache, queried through getOneByField
SpecOneByField ==
  Init /\ [][\/ NextCache
             \/ \E value \in Vals, recheckCache \in {"undefined", "true", "false"} :
                  GetOneByField(value, recheckCache)]_vars

\* queries whose filter holds an id condition (_eq, or _in with at least one
\* id), an equality on the status field, or both at once; skipCache unset
FilterQueries ==
  {Query("eq", i, <<>>, v, FALSE) : i \in Ids, v \in Vals \cup {NoVal}}
  \cup {Query("in", NoId, l, v, FALSE) : l \in IdLists \ {<<>>}, v \in Vals \cup {NoVal}}
  \cup {Query("none", NoId, <<>>, v, FALSE) : v \in Vals \cup {NoVal}}

\* the service with its cache, queried with filters on one or two fields
SpecFilter ==
  Init /\ [][\/ NextCache
             \/ \E q \in FilterQueries : QueryCached(q) \/ QueryBackend(q)]_vars

\* the broker with callbacks that subscribe, also more than once, and
\* unsubscribe while the status of s1 changes
SpecSubscribers ==
  InitBroker /\
  [][\/ \E st \in {IsLoginStatus_yes, IsLoginStatus_not} :
          BrokerUpsert("s1", Partial({"isLoggedIn"}, st, 0, 0), FALSE, TRUE)
     \/ \E t \in ServerNames \cup {"-any-"}, callback \in 1..MaxSubs :
          SubscribeCallback(t, callback)
     \/ \E callback \in 1..MaxSubs : Unsubscribe(callback)
     \/ Dispatch(FALSE, "s1", Partial({}, 0, 0, 0))]_vars

\* the queries of several callers on one service with deepFields
\* {author, tags}, with and without a field list
SpecFields ==
  Init /\
  [][\E c \in Callers :
       \/ \E fields \in {FieldList(FALSE, <<>>), FieldList(TRUE, <<>>)}
                         \cup {FieldList(TRUE, <<<<"id">>>> \o l) :
                                 l \in {<<>>, <<<<"author", "name">>>>, <<<<"tags", "name">>>>,
                                        <<<<"author">>>>,
                                        <<<<"author", "name">>, <<"tags", "name">>>>}} :
            QueryAwait(c, fields)
       \/ QueryPostProcessDeep(c)
       \/ QueryDone(c)]_vars

\* one query builder on which comparison methods are called, notIn with
\* arrays of one or two values
SpecCompare ==
  InitBuilder /\
  [][\E field \in {<<"a">>, <<"a", "x">>} :
       \/ \E method \in {"equal", "not"}, n \in 1..MaxOperand :
            Compare(method, field, Node("prim", n), FALSE)
       \/ \E n \in 1..MaxOperand, caseInsensitive \in BOOLEAN :
            Compare("contains", field, Node("prim", n), caseInsensitive)
       \/ \E value \in {<<1>>, <<1, 2>>} :
            Compare("notIn", field, Node("arr", value), FALSE)]_vars

\* ------------------------------------------------------------------ claims
\* the operators the filter tree holds at a path, as <<operator, operand>>
OpsAt(tree, path) ==
  LET RECURSIVE NodeAt(_, _)
      NodeAt(n, p) ==
        IF p = <<>> THEN n
        ELSE IF n.kind = "obj" /\ Head(p) \in DOMAIN n.v THEN NodeAt(n.v[Head(p)], Tail(p))
        ELSE Node("undefined", 0)
      at == NodeAt(tree, path)
  IN  IF at.kind = "obj"
      THEN {<<k, at.v[k]>> : k \in DOMAIN at.v \cap {"_eq", "_gt", "_in"}}
      ELSE {}

NoIndexRefersTo(id) == \A f \in Fields, v \in Vals : cacheIndex[f][v] # id

\* C1: while a login is in flight (isLoggedIn = waiting), a service constructor,
\* checkLogin(false) or upsertServer with doLogin does not invoke the adapter's
\* login again: no call made through one of them is inside loginToServer
\* having found the status waiting.
C1_LoginInvokedOnce ==
  \A c \in Callers :
    calls[c].via \in {"constructor", "checkLogin", "upsertServer"} => calls[c].pc # "poll"

\* C2: once cacheEnable has set maxItems = N on a cache that was within the
\* bound, the primary map never holds more than N ids.
C2_SizeBound ==
  (cache /\ enableOk) => Len(cachedItems) <= cacheMaxItems

\* C3: every id stored in a secondary index bucket is a key of the primary map,
\* mapped to an item or to null.
C3_IndexedIdsCached ==
  \A f \in Fields, v \in Vals :
    cacheIndex[f][v] # NoId =>
      /\ MapHas(cachedItems, cacheIndex[f][v])
      /\ MapGet(cachedItems, cacheIndex[f][v]) # UndefV

\* an id is still indexed right after another id was deleted
C3_Witness ==
  /\ lastOp.op = "cacheDelete"
  /\ \E f \in Fields, v \in Vals :
       cacheIndex[f][v] # NoId /\ MapHas(cachedItems, cacheIndex[f][v])

\* C4: from an empty cache enabled with maxItems = N, after cacheSet of N+1
\* items with distinct ids the first id is gone (cacheGet undefined, no index
\* refers to it) and cacheGet of the last id returns its item.
C4_EvictOldest ==
  (setLog # Void /\ Len(setLog) = cacheMaxItems + 1) =>
    /\ cacheGet(CacheRec, setLog[1]) = UndefV
    /\ NoIndexRefersTo(setLog[1])
    /\ IsItem(cacheGet(CacheRec, setLog[Len(setLog)]))
    /\ cacheGet(CacheRec, setLog[Len(setLog)]).id = setLog[Len(setLog)]

\* C5: on an enabled cache, right after cacheSetNullItem(id), cacheGet(id)
\* returns null.
C5_NullAfterSetNull ==
  (cache /\ lastOp.op = "cacheSetNullItem") => cacheGet(CacheRec, lastOp.id) = NullV

\* C6: after cacheSet(x); cacheDelete(x.id) the id is forgotten: cacheGet
\* returns undefined, no index bucket maps a value to it and the last-loaded
\* slot does not hold x.
C6_Forgotten ==
  (lastOp.op = "cacheDelete" /\ lastOp.afterSet) =>
    /\ cacheGet(CacheRec, lastOp.id) = UndefV
    /\ NoIndexRefersTo(lastOp.id)
    /\ cacheLastLoadedItemID # lastOp.id
    /\ ~IsItem(cacheLastLoadedItem)

\* cacheDelete(x.id) has just followed cacheSet(x) on an enabled cache
C6_Witness ==
  cache /\ lastOp.op = "cacheDelete" /\ lastOp.afterSet

C8_AbsentShortCircuits ==
  [][(/\ lastOp'.op = "query"
      /\ lastOp'.q.hasId = "eq"
      /\ ~lastOp'.q.skipCache
      /\ cache
      /\ MapGet(cachedItems, lastOp'.q.eq) = NullV)
     => (~lastOp'.adapter /\ lastOp'.res = <<>>)]_vars

\* C9: on an enabled cache, cacheQuery of an id "in" filter returns the cached
\* items of all requested ids in the requested order if the primary map holds
\* every requested id as an item, and undefined otherwise.
C9_AllOrNothing ==
  cache =>
    \A l \in IdLists :
      cacheQuery(CacheRec, Query("in", NoId, l, NoVal, FALSE)) =
        IF \A k \in 1..Len(l) : IsItem(MapGet(cachedItems, l[k]))
        THEN Array([k \in 1..Len(l) |-> MapGet(cachedItems, l[k])])
        ELSE UndefV

\* C10: right after a query filtered by id went to the server and was
\* post-processed with caching on, cacheGet returns every returned entity, and
\* cacheGet returns null for exactly the requested ids that were not returned.
C10_ResultCached ==
  (cache /\ lastOp.op = "query" /\ lastOp.adapter /\ lastOp.q.hasId # "none") =>
    LET requested == IF lastOp.q.hasId = "eq" THEN {lastOp.q.eq}
                     ELSE {lastOp.q.in[k] : k \in 1..Len(lastOp.q.in)}
        returned == {lastOp.res[k].id : k \in 1..Len(lastOp.res)}
    IN  /\ \A k \in 1..Len(lastOp.res) :
             cacheGet(CacheRec, lastOp.res[k].id) = lastOp.res[k]
        /\ \A i \in requested :
             (cacheGet(CacheRec, i) = NullV) <=> (i \notin returned)

\* C11: deep-field resolution preserves shape and order: once loadDeepEntities
\* has returned and no relation fetch failed, every deep field with a sibling
\* service and well-formed foreign keys holds, for a scalar key whose entity
\* exists, that one foreign entity, and for an array of keys, the array of the
\* resolved entities in the order of the input ids.
C11_ShapeAndOrder ==
  (deep.status = "done" /\ ~deep.failed) =>
    \A e \in 1..Len(deep.orig), f \in deep.registered :
      LET val == deep.orig[e][f]
          ids == IF val.arr THEN val.v ELSE <<val.v>>
          now == deep.entities[e][f]
          InStore(i) == i \in deep.store
          found == SelectSeq(RealIds(ids).items, InStore)
      IN  RealIds(ids) # NullV =>
            IF val.arr
            THEN now = Val(TRUE, [n \in 1..Len(found) |-> Foreign(found[n])])
            ELSE Len(found) = 1 => now = Val(FALSE, Foreign(found[1]))

\* C12: for one result batch, loadDeepEntities calls getByIds at most once
\* for each configured deep field, whatever the number of entities.
C12_OneCallPerField ==
  \A f \in DeepFieldSet : deep.calls[f] <= 1

\* C13: a failure while resolving a deep field never fails the primary
\* fetch: loadDeepEntities does not throw, under either throwErrors setting.
C13_DeepFailureNotFatal ==
  deep.status # "thrown"

\* C14: filter merging is non-destructive: a call of filter (equal, not,
\* greater, ... are filter calls) leaves its operator at its path and keeps
\* every operator the tree held at any other dotted path, at any depth.
C14_MergeKeepsOthers ==
  [][qb'.last.op = "filter" =>
       /\ \A k \in DOMAIN qb'.last.arg.v :
            <<k, qb'.last.arg.v[k]>> \in OpsAt(filtersGet(qb'.query), qb'.last.field)
       /\ \A p \in Paths \ {qb'.last.field} :
            OpsAt(filtersGet(qb.query), p) \subseteq OpsAt(filtersGet(qb'.query), p)]_vars

\* equal('a.x', 1) and a call on a.y have been made, the last call being a
\* filter call, and the tree holds operators at both paths
C14_Witness ==
  /\ qb.last.op = "filter"
  /\ <<"_eq", Node("prim", 1)>> \in OpsAt(filtersGet(qb.query), <<"a", "x">>)
  /\ OpsAt(filtersGet(qb.query), <<"a", "y">>) # {}

\* C15: in(field, values) yields the filter tree that
\* filter(field, {_in: values}) yields from the same builder state.
C15_InIsFilter ==
  [][qb'.last.op = "in" =>
       qb'.query = filter(qb.query, qb'.last.field, Node("obj", [_in |-> qb'.last.arg]))]_vars

\* C16: the directus form of a query keeps every top-level key but fieldQ
\* under its name, has fieldQ replaced by deep, and in deep every subquery
\* has only prefixed keys at every nesting depth: no canonical key remains
\* in a subquery nested in a subquery.
C16_CompileConverts ==
  (qb.last.op = "for" /\ ~qb.last.thrown) =>
    LET q == qb.query.v
        out == qb.last.ret.v
        RECURSIVE Converted(_)
        Converted(sub) ==
          \A k \in DOMAIN sub.v :
            /\ k \notin {"limit", "filter", "fieldQ"}
            /\ k \in {"_fieldQ", "_deep"} =>
                 \A c \in DOMAIN sub.v[k].v : Converted(sub.v[k].v[c])
    IN  /\ \A k \in DOMAIN q \ {"fieldQ"} : k \in DOMAIN out /\ out[k] = q[k]
        /\ "fieldQ" \notin DOMAIN out
        /\ "fieldQ" \in DOMAIN q =>
             /\ "deep" \in DOMAIN out
             /\ DOMAIN out.deep.v = DOMAIN q.fieldQ.v
             /\ \A f \in DOMAIN out.deep.v : Converted(out.deep.v[f])

\* C17: compilation is pure: a call of for leaves the builder's query as it
\* was, whether it returns or throws; it throws exactly for a target other
\* than directus (the default); and compiling again returns an equal output.
C17_CompilePure ==
  [][qb'.last.op = "for" =>
       /\ qb'.query = qb.query
       /\ qb'.last.thrown <=> qb'.last.field \notin {<<"directus">>, <<"">>}
       /\ ~qb'.last.thrown => for(qb'.query, qb'.last.field[1]).ret = qb'.last.ret]_vars

\* a query with a subquery has been compiled and still holds its fieldQ
C17_Witness ==
  /\ qb.last.op = "for"
  /\ ~qb.last.thrown
  /\ "fieldQ" \in DOMAIN qb.query.v
  /\ "deep" \in DOMAIN qb.last.ret.v

\* C18: on a service constructed with readonly = true every mutating call
\* (add, update, delete, deleteIds, upsert, batchUpdate, batchDelete) returns
\* or throws an error before any backend adapter invocation and before any
\* cache change: the cache and the server's login state are as before the
\* call, and the call made no request, no checkLogin(true) and no login
C18_ReadonlyGuard ==
  [][(svc'.readonly /\ svc'.op = lastOp'.op /\
      lastOp'.op \in {"add", "update", "delete", "deleteIds", "upsert",
                      "batchUpdate", "batchDelete"})
       => /\ svc'.ret \in {"string", "thrown"}
          /\ cacheVars' = cacheVars
          /\ srvInfo' = srvInfo
          /\ svc'.dataCalls = 0 /\ svc'.rechecks = 0 /\ svc'.logins = 0]_vars

\* C19: a backend call that fails with a message holding a token-expired or
\* a permission marker triggers exactly one checkLogin(true) and exactly one
\* retry of the same call; one operation never makes more than two adapter
\* calls, and an error of any other class is not retried.  A call whose
\* re-login was refused (the server is left not logged in) is not held to the
\* retry
C19_RetryOnce ==
  /\ svc.dataCalls <= 2
  /\ (/\ svc.firstErr.e
      /\ svc.firstErr.msg \cap {"permission", "oken expired"} # {}
      /\ srvInfo.isLoggedIn # IsLoginStatus_not)
        => (svc.rechecks = 1 /\ svc.retries = 1)
  /\ (svc.firstErr.e /\ svc.firstErr.msg = {}) => svc.retries = 0

\* C20: on every failure the error is recorded in lastError; with throwErrors
\* it is thrown; without it nothing is thrown and the failing call returns the
\* error's string message; a failure of the constructor throws under either
\* setting
C20_ErrorPolicy ==
  svc.failed =>
    /\ svc.lastError.e
    /\ (svc.throwErrors \/ svc.op = "constructor") => svc.ret = "thrown"
    /\ (~svc.throwErrors /\ svc.op # "constructor")
          => (svc.ret = "string" /\ svc.retMsg = svc.lastError.msg)

\* C21: upsertServer applies and notifies only the actual difference: the
\* changedFields handed to the subscribers hold exactly the keys of the
\* requested changes whose new value differs from the server's previous value
\* (every key when the server is new); when no key differs nothing is
\* notified, and with notify = false the changes are applied and nothing is
\* notified
C21_OnlyDifference ==
  [][\A ch \in BrokerChanges("s1"), nt \in BOOLEAN :
       BrokerUpsert("s1", ch, FALSE, nt) =>
         LET existed == "s1" \in DOMAIN broker.servers
             old == broker.servers["s1"]
             differs(k) ==
               \/ ~existed
               \/ CASE k = "isLoggedIn" -> ch.isLoggedIn # old.isLoggedIn
                    [] k = "token" -> ch.token # old.token
                    [] k = "entities" -> ch.entities.items # old.entities
                    [] OTHER -> ~old.type
             D == {k \in ch.keys : differs(k)}
             subs == broker.subs["s1"] \o broker.subs["-any-"]
             new == SubSeq(broker'.timers, Len(broker.timers) + 1, Len(broker'.timers))
         IN  /\ "token" \in ch.keys => broker'.servers["s1"].token = ch.token
             /\ "isLoggedIn" \in ch.keys => broker'.servers["s1"].isLoggedIn = ch.isLoggedIn
             /\ IF nt /\ D # {}
                THEN /\ Len(new) = Len(subs)
                     /\ \A k \in 1..Len(new) : new[k].updates.keys = D
                ELSE new = <<>>]_vars

\* C22: upsertServer starts a login if and only if doLogin is true, the
\* difference touched a credential (the token was set, changed or cleared) and
\* the server's authState is <= 0; it returns while the login request is still
\* pending.  Checked for a server that has a login function and is not already
\* waiting for a login.
C22_LoginIff ==
  [][\A ch \in BrokerChanges("s1"), dl \in BOOLEAN, nt \in BOOLEAN :
       (/\ BrokerUpsert("s1", ch, dl, nt)
        /\ broker'.servers["s1"].type
        /\ broker'.pending["s1"] = 0 => broker'.servers["s1"].isLoggedIn # IsLoginStatus_waiting)
       => LET existed == "s1" \in DOMAIN broker.servers
              oldToken == IF existed THEN broker.servers["s1"].token ELSE 0
              status == IF "isLoggedIn" \in ch.keys THEN ch.isLoggedIn
                        ELSE IF existed THEN broker.servers["s1"].isLoggedIn
                        ELSE IsLoginStatus_not
              touched == "token" \in ch.keys /\ ch.token # oldToken
              started == broker'.pending["s1"] = broker.pending["s1"] + 1
          IN  started <=> (dl /\ touched /\ status <= 0 /\ status # IsLoginStatus_waiting)]_vars

\* C23: waitForLogin only observes: a step of a waitForLogin call, its start
\* or one of its polls, never invokes the adapter's login and leaves the
\* server's isLoggedIn and every other field of the server as they were
C23_WaitObserves ==
  [][\A c \in Callers :
       (calls'[c] # calls[c] /\ calls'[c].via = "waitForLogin")
         => (srvInfo' = srvInfo /\ calls'[c].pc \in {"wait", "returned"})]_vars

\* waitForLogin has returned on a server that is not logged in, and no login
\* request is under way
C23_Witness ==
  \E c \in Callers :
    /\ calls[c].pc = "returned" /\ calls[c].via = "waitForLogin"
    /\ calls[c].ret = IsLoginStatus_not /\ srvInfo.isLoggedIn = IsLoginStatus_not
    /\ \A d \in Callers : calls[d].pc # "request"

\* C24: waitForLogin(name, tries) ends after at most tries polling intervals
\* and what it returns is a terminal state of the login attempt: yes, not or
\* error, never waiting
C24_WaitTerminal ==
  \A c \in Callers :
    (calls[c].via = "waitForLogin")
      => /\ calls[c].tries < MaxTries
         /\ calls[c].pc = "returned" =>
              calls[c].ret \in {IsLoginStatus_yes, IsLoginStatus_not, IsLoginStatus_error}

\* C28: error is a terminal state: while isLoggedIn is error, neither
\* checkLogin(false), nor the construction of a service, nor a poll starts a
\* login or changes the status
C28_ErrorTerminal ==
  [][\A c \in Callers :
       (/\ srvInfo.isLoggedIn = IsLoginStatus_error
        /\ calls'[c] # calls[c]
        /\ calls'[c].via \in {"checkLogin", "constructor", "waitForLogin"})
         => (srvInfo'.isLoggedIn = IsLoginStatus_error /\ calls'[c].pc # "request")]_vars

\* C25: the dispatch of a notification is deferred: no callback runs during
\* a call of upsertServer, loginServer or during the login that follows, and
\* when a callback calls upsertServer itself, that callback is the only one
\* that runs in its tick: the notification of its own change waits in a timer
C25_DispatchDeferred ==
  /\ broker.last \in {"upsertServer", "loginServer", "loginAnswer", "subscribe"}
       => broker.ran = <<>>
  /\ broker.last \in {"dispatch", "react"} => Len(broker.ran) = 1

\* a callback has called upsertServer, and the notification of that change is
\* in a timer: the queue is full again after the callback's timer left it
C25_Witness ==
  /\ broker.last = "react" /\ broker.notes # <<>>
  /\ Len(broker.ran) = 1 /\ Len(broker.timers) = MaxTimers

\* C26: for every notifying change of a server S each callback subscribed to S
\* and each callback subscribed to '-any-' gets a timer, in this order, and a
\* callback subscribed only to another server gets none
C26_Routing ==
  [][LET popped == IF broker'.last \in {"dispatch", "react"} THEN 1 ELSE 0
         new == SubSeq(broker'.timers, Len(broker.timers) - popped + 1, Len(broker'.timers))
         subs(S) == broker'.subs[S] \o broker'.subs["-any-"]
         RECURSIVE Expected(_)
         Expected(k) ==
           IF k > Len(broker'.notes) THEN <<>>
           ELSE [j \in 1..Len(subs(broker'.notes[k])) |->
                   <<subs(broker'.notes[k])[j], broker'.notes[k]>>] \o Expected(k + 1)
     IN  [k \in 1..Len(new) |-> <<new[k].cb, new[k].name>>] = Expected(1)]_vars

\* a change of s1 was notified while one callback is subscribed to s2 and one
\* to '-any-': only the wildcard callback has a timer
C26_Witness ==
  /\ broker.notes # <<>> /\ broker.last = "upsertServer"
  /\ broker.subs["s2"] # <<>> /\ broker.subs["-any-"] # <<>>
  /\ \A k \in 1..Len(broker.timers) : broker.timers[k].cb = broker.subs["-any-"][1]
  /\ broker.timers # <<>>

\* C27: every change of a server's isLoggedIn by a login (loginServer, with or
\* without a login function, or the server's answer to a login request) is
\* eventually delivered to the subscribers of that server in a notification
\* whose changedFields hold the new status
C27_AuthDelivered ==
  \A st \in {IsLoginStatus_yes, IsLoginStatus_not, IsLoginStatus_waiting, IsLoginStatus_error} :
    (broker.owed["s1"] = {st}) ~> (broker.owed["s1"] # {st})

\* C29: the server that upsertServer creates for a name that is not registered
\* has isLoggedIn = not, whatever the changes hold
C29_CreatedNotLoggedIn ==
  [][("s1" \notin DOMAIN broker.servers /\ "s1" \in DOMAIN broker'.servers
        /\ broker'.pending["s1"] = 0)
       => broker'.servers["s1"].isLoggedIn = IsLoginStatus_not]_vars

\* C30: getServerByEntity routes 'server:entity' to the named server and an
\* unprefixed name to a server whose entities hold it; when a server is found
\* and a service instance is passed, getServiceByEntity(entity) gives that
\* instance afterwards; when no server is found it returns undefined and
\* registers nothing, and the constructor of the service throws whatever
\* throwErrors is
C30_Routes ==
  [][broker'.last = "getServerByEntity" =>
       LET r == broker'.route
           holds(n) == /\ n \in DOMAIN broker.servers
                       /\ \E k \in 1..Len(broker.servers[n].entities) :
                            broker.servers[n].entities[k] = r.name
       IN  /\ r.prefix # "" =>
                r.ret = (IF r.prefix \in DOMAIN broker.servers THEN r.prefix ELSE "")
           /\ r.prefix = "" =>
                IF \E n \in ServerNames : holds(n) THEN holds(r.ret) ELSE r.ret = ""
           /\ (r.ret # "" /\ r.inst # 0) => broker'.serviceByEntity[r.name] = r.inst
           /\ r.ret = "" =>
                /\ broker'.serviceByEntity = broker.serviceByEntity
                /\ broker'.servers = broker.servers
                /\ r.thrown = (r.inst # 0)]_vars

\* a service was constructed for 's2:users' although s2 does not list users,
\* and is kept under 'users'
C30_Witness ==
  /\ broker.last = "getServerByEntity" /\ broker.route.prefix = "s2"
  /\ broker.route.name = "users" /\ broker.route.ret = "s2"
  /\ broker.route.inst # 0 /\ broker.serviceByEntity["users"] = broker.route.inst

\* C31: when a service was constructed as 'server:entity' and found its
\* server, the deep-field lookup of the same 'server:entity' finds that service
C31_PrefixedDeepField ==
  [][(/\ broker.last = "getServerByEntity" /\ broker.route.prefix # ""
      /\ broker.route.inst # 0 /\ broker.route.ret # ""
      /\ broker'.last = "getServiceByEntity"
      /\ broker'.route.prefix = broker.route.prefix
      /\ broker'.route.name = broker.route.name)
     => broker'.route.inst = broker.route.inst]_vars

C33_OneByFieldCached ==
  [][\A value \in Vals, recheckCache \in {"undefined", "false"} :
       GetOneByField(value, recheckCache)
         => /\ ~lastOp'.q.skipCache
            /\ Truthy(cacheGetByField(CacheRec, "status", value))
                 => /\ ~lastOp'.adapter
                    /\ lastOp'.res = <<cacheGetByField(CacheRec, "status", value)>>]_vars

\* C34: a query answered from the cache whose filter holds an id condition
\* together with a condition on another field is not resolved by cacheQuery
\* (it returns undefined), and every item answered from the cache satisfies
\* every condition of the filter
C34_WholeFilter ==
  (lastOp.op = "query" /\ ~lastOp.adapter) =>
    /\ (lastOp.q.hasId # "none" /\ lastOp.q.st # NoVal)
         => cacheQuery(CacheRec, lastOp.q) = UndefV
    /\ \A k \in 1..Len(lastOp.res) : Matches(lastOp.q, lastOp.res[k])

\* C35: a callback that was unsubscribed, and not subscribed again since, is
\* not invoked
C35_UnsubscribedSilent ==
  \A k \in 1..Len(broker.ran) : broker.ran[k] \notin broker.gone

\* C36: the deep fields resolved for the result of a query are those of the
\* query's own field list, whatever other queries were started meanwhile
C36_OwnFieldList ==
  \A c \in Callers :
    deep.queries[c].pc = "done" => deep.queries[c].loaded = forFields(deep.queries[c].fields)

\* C37: when a notification is dispatched, every field of its changes has
\* the value that the server record handed along with it holds at that time
C37_SelfConsistent ==
  [][broker'.last \in {"dispatch", "react"} =>
       LET t == Head(broker.timers)
           fullSrv == broker.servers[t.name]
       IN  /\ "isLoggedIn" \in t.updates.keys => t.updates.isLoggedIn = fullSrv.isLoggedIn
           /\ "token" \in t.updates.keys => t.updates.token = fullSrv.token
           /\ "entities" \in t.updates.keys => t.updates.entities.items = fullSrv.entities]_vars

\* C38: whenever cacheGetByField(field, value) returns an item, the item's
\* field has that value and the item is the one the primary map holds under
\* its id (so a value that cacheSet has replaced resolves to nothing stale)
C38_IndexResolvesStored ==
  \A f \in Fields, v \in Vals :
    LET item == cacheGetByField(CacheRec, f, v)
    IN  IsItem(item) => item[f] = v /\ MapGet(cachedItems, item.id) = item

\* C39: a lookup of an entity name that the resolved server already lists
\* leaves the server's entities as they are, and no server lists a name twice
C39_EntitiesAreASet ==
  [][broker'.last = "getServerByEntity" =>
       LET r == broker'.route
           listed(es) == \E k \in 1..Len(es) : es[k] = r.name
       IN  /\ (r.ret # "" /\ listed(broker.servers[r.ret].entities))
                => broker'.servers[r.ret].entities = broker.servers[r.ret].entities
           /\ \A n \in DOMAIN broker'.servers :
                \A j, k \in 1..Len(broker'.servers[n].entities) :
                  broker'.servers[n].entities[j] = broker'.servers[n].entities[k] => j = k]_vars

\* C40: after a comparison method was called with a field path and a value,
\* the filter tree holds at that path, under the method's operator (for
\* contains _contains, or _icontains when case-insensitive), exactly the
\* value given, whatever an earlier call had put there
C40_HoldsValueGiven ==
  [][\A field \in {<<"a">>, <<"a", "x">>} :
       LET at == IF Len(field) = 1 THEN filtersGet(qb'.query).v[field[1]]
                 ELSE filtersGet(qb'.query).v[field[1]].v[field[2]]
           holds(key, value) == /\ key \in DOMAIN at.v /\ at.v[key].kind = value.kind
                                /\ at.v[key].v = value.v
       IN  /\ \A n \in 1..MaxOperand :
                /\ Compare("equal", field, Node("prim", n), FALSE)
                     => holds("_eq", Node("prim", n))
                /\ Compare("not", field, Node("prim", n), FALSE)
                     => holds("_neq", Node("prim", n))
                /\ Compare("contains", field, Node("prim", n), FALSE)
                     => holds("_contains", Node("prim", n))
                /\ Compare("contains", field, Node("prim", n), TRUE)
                     => holds("_icontains", Node("prim", n))
           /\ \A value \in {<<1>>, <<1, 2>>} :
                Compare("notIn", field, Node("arr", value), FALSE)
                  => holds("_nin", Node("arr", value))]_vars

====
